---- MODULE Spec2Model ----
(***************************************************************************)
(* Fardels: the listing inventory, escrow and settlement engine of the     *)
(* contract (exec.rs, fardel_state.rs, unpack_state.rs).                   *)
(*                                                                         *)
(* One action per handler.  A handler that returns Err(..) has its writes  *)
(* discarded by the host, so such a step changes `response` only.  A       *)
(* handler that returns Ok with status Failure keeps its writes.           *)
(***************************************************************************)
EXTENDS Integers, Sequences, FiniteSets, TLC

\* ------------------------------------------------------------------ bounds

\* fardels the store has room for (the global counter stops here)
MaxFardels == 2
\* entries a single owner's pending queue may hold
MaxPending == 3
\* width, in bits, that stands for the 128 bits of u128 (U256 has twice it)
AmountBits == 10
HashBits == 2
PageBits == 3
\* the comments left on one fardel
MaxComments == 2

\* ------------------------------------------------------------------ universe

Accounts == {"o", "a", "b"}
\* constants.admin, the operator that receives the commission
Operator == "admin"
Senders == Accounts \cup {Operator}
\* accounts that carry fardels
Carriers == {"o"}
GlobalIds == 0 .. (MaxFardels - 1)
\* absent key of the keyed store
Absent == -1

Pow2(n) == 2 ^ n
U128 == Pow2(AmountBits)
U256 == Pow2(2 * AmountBits)
U16 == 65536

\* amounts sent with UnpackFardel: the two costs of the offers below
Amounts == {100, 1000}
\* the fardels carried: cost, countable (0 = no limit), approval_req and
\* seal_time (0 = never); every pair of values of two fields occurs
Offer(cost, countable, approval_req, seal_time) ==
    [cost |-> cost, countable |-> countable, approval_req |-> approval_req,
     seal_time |-> seal_time]
Offers == {Offer(100, 1, FALSE, 0), Offer(1000, 1, TRUE, 1),
           Offer(100, 0, TRUE, 1), Offer(1000, 0, FALSE, 0),
           Offer(100, 2, TRUE, 0), Offer(1000, 2, FALSE, 1),
           Offer(1001, 1, FALSE, 0)}
\* values of the block time: up to the seal time of the offers, and after it
Times == 1 .. 2
\* Option<i32> number of ApprovePendingUnpacks: None (Absent), or a value
Numbers == {Absent, 0, 1, 2}
\* the address of a query that comes with no viewing key (None)
NoAddress == ""
\* no rating stored for a rater and a fardel; otherwise the bool stored
Unrated == <<>>

\* ------------------------------------------------------------------ state

VARIABLES
    constants,      \* Config: [admin, transaction_fee: [nom, denom], max_cost]
    fardel_count,   \* KEY_FARDEL_COUNT
    fardel_log,     \* PREFIX_FARDELS | owner -> append store of StoredFardel
    id_to_fardel,   \* PREFIX_ID_FARDEL_MAPPINGS: global id -> [owner, index]
    hash_to_id,     \* PREFIX_HASH_ID_MAPPINGS: hash id -> global id
    unpack_count,   \* PREFIX_FARDEL_NUM_UNPACKS: global id -> count
    sealed,         \* PREFIX_SEALED: the global ids stored true
    hidden,         \* PREFIX_HIDDEN
    removed,        \* PREFIX_REMOVED
    unpacked_log,   \* PREFIX_UNPACKED | unpacker -> append store of global ids
    unpacked_map,   \* PREFIX_ID_UNPACKED_MAPPINGS: <<unpacker, id>> stored true
    pending_log,    \* PREFIX_PENDING_APPROVAL | owner -> append store
    pending_start,  \* PREFIX_PENDING_START: owner -> index
    pending_map,    \* PREFIX_ID_PENDING_UNPACKED_MAPPINGS: <<unpacker, id>> -> MyPendingUnpack
    blocked,        \* PREFIX_BLOCKED: <<blocker, blocked>> pairs stored true
    banned,         \* PREFIX_BANNED: accounts stored true
    deactivated,    \* PREFIX_DEACTIVATED: accounts stored true
    now,            \* env.block.time
    response,       \* the HandleResponse of the last call
    new_admin,      \* the address that the admin last asked to hand over to
    new_admin_count,\* the number of requests counted for new_admin
    rated,          \* PREFIX_RATED: <<rater, global id>> -> the rating stored
    upvotes,        \* PREFIX_UPVOTES: global id -> count
    downvotes,      \* PREFIX_DOWNVOTES: global id -> count
    comments        \* PREFIX_COMMENTS | global id -> append store of commenters

store == <<constants, fardel_count, fardel_log, id_to_fardel, hash_to_id,
           unpack_count, sealed, hidden, removed, unpacked_log, unpacked_map,
           pending_log, pending_start, pending_map, blocked, banned,
           deactivated, new_admin, new_admin_count, rated, upvotes, downvotes,
           comments>>

vars == <<constants, fardel_count, fardel_log, id_to_fardel, hash_to_id,
          unpack_count, sealed, hidden, removed, unpacked_log, unpacked_map,
          pending_log, pending_start, pending_map, blocked, banned,
          deactivated, now, response, new_admin, new_admin_count, rated,
          upvotes, downvotes, comments>>

\* ------------------------------------------------------------------ helpers

\* hash128_with_seed over (height, cost, counter, sender, message): the
\* counter is part of the hashed data; the hash is taken as collision free
HashId(count) == 3 * count + 11
HashIds == {HashId(g) : g \in GlobalIds}

\* hash128_with_seed as a function of all the hashed data and the seed, at a
\* width of HashBits bits: each number of the data is mixed into the running
\* value, which starts at the seed
HashValues == 0 .. Pow2(HashBits) - 1
RECURSIVE hash128_with_seed(_, _)
hash128_with_seed(data, seed) ==
    IF data = <<>> THEN seed % Pow2(HashBits)
    ELSE (5 * hash128_with_seed(SubSeq(data, 1, Len(data) - 1), seed)
          + data[Len(data)]) % Pow2(HashBits)

\* the bytes of an address, as a number
AddrBytes(sender) ==
    CASE sender = "o" -> 1 [] sender = "a" -> 2 [] sender = "b" -> 3 [] OTHER -> 0

Min(x, y) == IF x < y THEN x ELSE y

\* the HandleResponse: status Success/Failure come back as Ok, Err is an error
Response(op, sender, id, status, msg, contents, messages) ==
    [op |-> op, sender |-> sender, id |-> id, sent |-> Absent, number |-> Absent,
     status |-> status, msg |-> msg, contents |-> contents, messages |-> messages]

\* the response to UnpackFardel, with the amount that was sent
UnpackResponse(sender, id, sent, status, msg, contents, messages) ==
    [op |-> "unpack", sender |-> sender, id |-> id, sent |-> sent,
     number |-> Absent, status |-> status, msg |-> msg, contents |-> contents,
     messages |-> messages]

\* the response to ApprovePendingUnpacks, with the number that was asked for
ApproveResponse(sender, number, status, msg, messages) ==
    [op |-> "approve", sender |-> sender, id |-> Absent, sent |-> Absent,
     number |-> number, status |-> status, msg |-> msg, contents |-> FALSE,
     messages |-> messages, txs |-> <<>>]

\* a sale or purchase entry of the transaction history
Tx(kind, seller, buyer, fardel_id) ==
    [kind |-> kind, seller |-> seller, buyer |-> buyer, fardel_id |-> fardel_id]

BankSend(to, amount) == [to |-> to, amount |-> amount]

NoFee == [payment |-> Absent, commission |-> Absent]

\* ------------------------------------------------------------------ u256_math

\* Option<U256> arithmetic: None (Absent) on overflow, division by zero, underflow
mul(a, b) ==
    IF a = Absent \/ b = Absent THEN Absent
    ELSE IF a * b >= U256 THEN Absent ELSE a * b

div(a, b) ==
    IF a = Absent \/ b = Absent THEN Absent
    ELSE IF b = 0 THEN Absent ELSE a \div b

sub(a, b) ==
    IF a = Absent \/ b = Absent THEN Absent
    ELSE IF b > a THEN Absent ELSE a - b

low_u128(x) == x % U128

\* ------------------------------------------------------------------ settlement

\* the commission with the product taken in the width of the amount
unpack_settlement_narrow(cost, fee) ==
    LET commission_amount == div(low_u128(mul(cost, fee.nom)), fee.denom)
        payment_amount == sub(cost, commission_amount)
    IN  IF commission_amount = Absent \/ payment_amount = Absent THEN NoFee
        ELSE [payment |-> low_u128(payment_amount),
              commission |-> low_u128(commission_amount)]

\* try_unpack_fardel: commission_amount = cost * nom / denom in U256, then the
\* payment; Absent fields stand for the generic_err of either step
unpack_settlement(cost, fee) ==
    LET commission_amount == div(mul(cost, fee.nom), fee.denom)
        payment_amount == sub(cost, commission_amount)
    IN  IF commission_amount = Absent \/ payment_amount = Absent THEN NoFee
        ELSE [payment |-> low_u128(payment_amount),
              commission |-> low_u128(commission_amount)]

\* try_approve_pending_unpacks: the same computation, per settled entry
approve_settlement(cost, fee) ==
    LET commission_amount == div(mul(cost, fee.nom), fee.denom)
        payment_amount == sub(cost, commission_amount)
    IN  IF commission_amount = Absent \/ payment_amount = Absent THEN NoFee
        ELSE [payment |-> low_u128(payment_amount),
              commission |-> low_u128(commission_amount)]

\* ------------------------------------------------------------------ fardel_state

get_fardel_owner(global_id) == id_to_fardel[global_id].owner

get_fardel_by_global_id(global_id) ==
    fardel_log[id_to_fardel[global_id].owner][id_to_fardel[global_id].index + 1]

\* sold_out with the comparison off by one: a fardel at its limit still sells
sold_out_past_limit(f, counts) ==
    f.countable > 0 /\ counts[f.global_id] > f.countable

\* Fardel::sold_out against the stored unpack counts
sold_out(f, counts) ==
    f.countable > 0 /\ counts[f.global_id] >= f.countable

\* the decrement that takes two off the count
decrement_fardel_unpack_count_twice(counts, fardel_id) ==
    IF counts[fardel_id] < 1 THEN counts
    ELSE [counts EXCEPT ![fardel_id] = @ - 2]

increment_fardel_unpack_count(counts, fardel_id) ==
    [counts EXCEPT ![fardel_id] = @ + 1]

decrement_fardel_unpack_count(counts, fardel_id) ==
    IF counts[fardel_id] < 1 THEN counts
    ELSE [counts EXCEPT ![fardel_id] = @ - 1]

\* seal_fardel as a toggle: sealing a sealed fardel opens it again
seal_fardel_toggle(flags, fardel_id) ==
    IF fardel_id \in flags THEN flags \ {fardel_id} ELSE flags \cup {fardel_id}

seal_fardel(flags, fardel_id) == flags \cup {fardel_id}
hide_fardel(flags, fardel_id) == flags \cup {fardel_id}
unhide_fardel(flags, fardel_id) == flags \ {fardel_id}
remove_fardel(flags, fardel_id) == flags \cup {fardel_id}
unremove_fardel(flags, fardel_id) == flags \ {fardel_id}
get_sealed_status(flags, fardel_id) == fardel_id \in flags

\* query_get_fardel_by_id: remaining = (countable - unpack_count as u16) as i32,
\* the subtraction taken in u16
remaining(f, counts) == (f.countable - (counts[f.global_id] % U16)) % U16

\* ------------------------------------------------------------------ unpack_state

get_unpacked_status_by_fardel_id(map, unpacker, fardel_id) ==
    <<unpacker, fardel_id>> \in map

\* the marker read as set whatever was stored
get_pending_status_set(map, unpacker, fardel_id) ==
    [pending_unpack_idx |-> map[<<unpacker, fardel_id>>].pending_unpack_idx,
     value |-> TRUE]

get_pending_unpacked_status_by_fardel_id(map, unpacker, fardel_id) ==
    map[<<unpacker, fardel_id>>]

PendingUnpackApproval(fardel_id, unpacker, amount, canceled) ==
    [fardel_id |-> fardel_id, unpacker |-> unpacker, coin |-> amount,
     canceled |-> canceled]

MyPendingUnpack(idx, value) == [pending_unpack_idx |-> idx, value |-> value]

\* the approvals from the start, one more than the number asked for
get_pending_approvals_past_number(log, start, number) ==
    SubSeq(log, start + 1, IF start + number + 1 <= Len(log)
                           THEN start + number + 1 ELSE Len(log))

\* the approvals read from one place past the start
get_pending_approvals_past_start(log, start, number) ==
    SubSeq(log, start + 2, Min(start + 1 + number, Len(log)))

\* get_pending_approvals_from_start: iter().skip(start).take(number)
get_pending_approvals_from_start(log, start, number) ==
    SubSeq(log, start + 1, Min(start + number, Len(log)))

\* ------------------------------------------------------------------ social_state

is_blocked_by(blocks, blocker, account) == <<blocker, account>> \in blocks

\* ------------------------------------------------------------------ user_state

is_banned(bans, account) == account \in bans
is_deactivated(flags, account) == account \in flags

\* ------------------------------------------------------------------ store writes

\* store_unpack: push to the unpacker's history and set the unpacked flag
push_unpack(log, unpacker, fardel_id) ==
    [log EXCEPT ![unpacker] = Append(@, fardel_id)]

map_global_id_to_unpacked_by_unpacker(map, fardel_id, unpacker) ==
    map \cup {<<unpacker, fardel_id>>}

\* store_unpack for each entry of a list of approvals, in order
RECURSIVE store_unpacks_log(_, _)
store_unpacks_log(log, approvals) ==
    IF approvals = <<>> THEN log
    ELSE store_unpacks_log(
             push_unpack(log, Head(approvals).unpacker, Head(approvals).fardel_id),
             Tail(approvals))

RECURSIVE store_unpacks_map(_, _)
store_unpacks_map(map, approvals) ==
    IF approvals = <<>> THEN map
    ELSE store_unpacks_map(
             map_global_id_to_unpacked_by_unpacker(
                 map, Head(approvals).fardel_id, Head(approvals).unpacker),
             Tail(approvals))

\* the payments pushed by the approval loop, one per settled entry
RECURSIVE approve_payments(_, _, _)
approve_payments(approvals, fee, to) ==
    IF approvals = <<>> THEN <<>>
    ELSE <<BankSend(to, approve_settlement(Head(approvals).coin, fee).payment)>>
         \o approve_payments(Tail(approvals), fee, to)

\* the history entries appended by the approval loop: a sale and a purchase
\* per settled entry
RECURSIVE approve_txs(_, _)
approve_txs(approvals, owner) ==
    IF approvals = <<>> THEN <<>>
    ELSE <<Tx("sale", owner, Head(approvals).unpacker, Head(approvals).fardel_id),
           Tx("purchase", owner, Head(approvals).unpacker,
              Head(approvals).fardel_id)>>
         \o approve_txs(Tail(approvals), owner)

\* total_commission += commission_amount.low_u128(), over the settled entries
RECURSIVE approve_total_commission(_, _)
approve_total_commission(approvals, fee) ==
    IF approvals = <<>> THEN 0
    ELSE approve_settlement(Head(approvals).coin, fee).commission
         + approve_total_commission(Tail(approvals), fee)

\* ------------------------------------------------------------------ Init

\* the store before any fardel is carried
EmptyStore ==
    /\ fardel_count = 0
    /\ fardel_log = [a \in Accounts |-> <<>>]
    /\ id_to_fardel = [g \in GlobalIds |-> Absent]
    /\ hash_to_id = [h \in HashIds \cup HashValues |-> Absent]
    /\ unpack_count = [g \in GlobalIds |-> 0]
    /\ sealed = {}
    /\ hidden = {}
    /\ removed = {}
    /\ unpacked_log = [a \in Accounts |-> <<>>]
    /\ unpacked_map = {}
    /\ pending_log = [a \in Accounts |-> <<>>]
    /\ pending_start = [a \in Accounts |-> 0]
    /\ pending_map = [k \in Accounts \X GlobalIds |-> MyPendingUnpack(0, FALSE)]
    /\ blocked = {}
    /\ banned = {}
    /\ deactivated = {}
    /\ now = 1
    /\ response = Response("init", Operator, Absent, "Success", "", FALSE, <<>>)
    /\ new_admin = NoAddress
    /\ new_admin_count = 0
    /\ rated = [k \in Accounts \X GlobalIds |-> Unrated]
    /\ upvotes = [g \in GlobalIds |-> 0]
    /\ downvotes = [g \in GlobalIds |-> 0]
    /\ comments = [g \in GlobalIds |-> <<>>]

\* init: the default transaction fee of 3/1000, and the InitMsg's max_cost
Init ==
    /\ constants = [admin |-> Operator,
                    transaction_fee |-> [nom |-> 3, denom |-> 1000],
                    max_cost |-> 1000]
    /\ EmptyStore

\* ------------------------------------------------------------------ CarryFardel

\* try_carry_fardel and store_fardel, with the hash id that the hash of the
\* call's data comes to
CarryFardelAt(sender, cost, countable, approval_req, seal_time, hash) ==
    /\ fardel_count < MaxFardels
    /\ IF cost > constants.max_cost
       THEN /\ response' = Response("carry", sender, Absent, "Failure",
                                    "InvalidInput", FALSE, <<>>)
            /\ UNCHANGED <<store, now>>
       ELSE LET global_id == fardel_count
                hash_id == hash
                index == Len(fardel_log[sender])
                fardel == [global_id |-> global_id, hash_id |-> hash_id,
                           cost |-> cost, countable |-> countable,
                           approval_req |-> approval_req, seal_time |-> seal_time]
            IN  /\ fardel_log' = [fardel_log EXCEPT ![sender] = Append(@, fardel)]
                /\ id_to_fardel' = [id_to_fardel EXCEPT ![global_id] =
                                        [owner |-> sender, index |-> index]]
                /\ hash_to_id' = [hash_to_id EXCEPT ![hash_id] = global_id]
                /\ unpack_count' = [unpack_count EXCEPT ![global_id] = 0]
                /\ unpacked_log' = push_unpack(unpacked_log, sender, global_id)
                /\ unpacked_map' = map_global_id_to_unpacked_by_unpacker(
                                       unpacked_map, global_id, sender)
                /\ fardel_count' = global_id + 1
                /\ response' = Response("carry", sender, global_id, "Success", "",
                                        FALSE, <<>>)
                /\ UNCHANGED <<new_admin, new_admin_count, rated, upvotes, downvotes, comments,
                  constants, sealed, hidden, removed, pending_log,
                               pending_start, pending_map, blocked, banned,
                               deactivated, now>>

\* try_carry_fardel with data whose hashes do not collide
CarryFardel(sender, cost, countable, approval_req, seal_time) ==
    CarryFardelAt(sender, cost, countable, approval_req, seal_time,
                  HashId(fardel_count))

\* try_carry_fardel with a public message: the hash id is the hash of the
\* block height, the cost, the fardel count, the sender and the message, seeded
\* with the block time
CarryFardelHashed(sender, cost, countable, approval_req, seal_time, message) ==
    CarryFardelAt(sender, cost, countable, approval_req, seal_time,
                  hash128_with_seed(<<now, cost, fardel_count, AddrBytes(sender),
                                      message>>, now))

\* ------------------------------------------------------------------ flags

\* try_seal_fardel
SealFardel(sender, hash) ==
    /\ IF hash_to_id[hash] = Absent
       THEN /\ response' = Response("seal", sender, Absent, "Failure", "NotFound",
                                    FALSE, <<>>)
            /\ UNCHANGED sealed
       ELSE IF get_fardel_owner(hash_to_id[hash]) = sender
       THEN /\ sealed' = seal_fardel(sealed, hash_to_id[hash])
            /\ response' = Response("seal", sender, hash_to_id[hash], "Success", "",
                                    FALSE, <<>>)
       ELSE /\ response' = Response("seal", sender, hash_to_id[hash], "Failure",
                                    "NotOwner", FALSE, <<>>)
            /\ UNCHANGED sealed
    /\ UNCHANGED <<new_admin, new_admin_count, rated, upvotes, downvotes, comments,
                  constants, fardel_count, fardel_log, id_to_fardel, hash_to_id,
                   unpack_count, hidden, removed, unpacked_log, unpacked_map,
                   pending_log, pending_start, pending_map, blocked, banned,
                               deactivated, now>>

\* try_hide_fardel (hide = TRUE) and try_unhide_fardel (hide = FALSE)
HideFardel(sender, hash, hide) ==
    /\ IF hash_to_id[hash] = Absent
       THEN /\ response' = Response(IF hide THEN "hide" ELSE "unhide", sender, Absent,
                                    "Failure", "NotFound", FALSE, <<>>)
            /\ UNCHANGED hidden
       ELSE IF get_fardel_owner(hash_to_id[hash]) = sender
       THEN /\ hidden' = IF hide THEN hide_fardel(hidden, hash_to_id[hash])
                         ELSE unhide_fardel(hidden, hash_to_id[hash])
            /\ response' = Response(IF hide THEN "hide" ELSE "unhide", sender,
                                    hash_to_id[hash], "Success", "", FALSE, <<>>)
       ELSE /\ response' = Response(IF hide THEN "hide" ELSE "unhide", sender,
                                    hash_to_id[hash], "Failure", "NotOwner", FALSE, <<>>)
            /\ UNCHANGED hidden
    /\ UNCHANGED <<new_admin, new_admin_count, rated, upvotes, downvotes, comments,
                  constants, fardel_count, fardel_log, id_to_fardel, hash_to_id,
                   unpack_count, sealed, removed, unpacked_log, unpacked_map,
                   pending_log, pending_start, pending_map, blocked, banned,
                               deactivated, now>>

\* try_remove_fardel: the admin's remove (rem = TRUE) and unremove (rem = FALSE)
RemoveFardel(sender, hash, rem) ==
    /\ IF sender # constants.admin
       THEN /\ response' = Response(IF rem THEN "remove" ELSE "unremove", sender,
                                    Absent, "Err", "Unauthorized", FALSE, <<>>)
            /\ UNCHANGED removed
       ELSE IF hash_to_id[hash] = Absent
       THEN /\ response' = Response(IF rem THEN "remove" ELSE "unremove", sender,
                                    Absent, "Failure", "NotFound", FALSE, <<>>)
            /\ UNCHANGED removed
       ELSE /\ removed' = IF rem THEN remove_fardel(removed, hash_to_id[hash])
                          ELSE unremove_fardel(removed, hash_to_id[hash])
            /\ response' = Response(IF rem THEN "remove" ELSE "unremove", sender,
                                    hash_to_id[hash], "Success", "", FALSE, <<>>)
    /\ UNCHANGED <<new_admin, new_admin_count, rated, upvotes, downvotes, comments,
                  constants, fardel_count, fardel_log, id_to_fardel, hash_to_id,
                   unpack_count, sealed, hidden, unpacked_log, unpacked_map,
                   pending_log, pending_start, pending_map, blocked, banned,
                               deactivated, now>>

\* try_store_block: the sender blocks or unblocks another account
StoreBlock(sender, account, block) ==
    /\ blocked' = IF block THEN blocked \cup {<<sender, account>>}
                  ELSE blocked \ {<<sender, account>>}
    /\ response' = Response(IF block THEN "block" ELSE "unblock", sender, Absent,
                            "Success", "", FALSE, <<>>)
    /\ UNCHANGED <<new_admin, new_admin_count, rated, upvotes, downvotes, comments,
                  constants, fardel_count, fardel_log, id_to_fardel, hash_to_id,
                   unpack_count, sealed, hidden, removed, unpacked_log, unpacked_map,
                   pending_log, pending_start, pending_map, banned, deactivated,
                   now>>

\* try_store_deactivate: the sender deactivates or reactivates its account
StoreDeactivate(sender, flag) ==
    /\ deactivated' = IF flag THEN deactivated \cup {sender}
                      ELSE deactivated \ {sender}
    /\ response' = Response(IF flag THEN "deactivate" ELSE "reactivate", sender,
                            Absent, "Success", "", FALSE, <<>>)
    /\ UNCHANGED <<new_admin, new_admin_count, rated, upvotes, downvotes, comments,
                  constants, fardel_count, fardel_log, id_to_fardel, hash_to_id,
                   unpack_count, sealed, hidden, removed, unpacked_log, unpacked_map,
                   pending_log, pending_start, pending_map, blocked, banned, now>>

\* try_store_ban: the admin bans or unbans an account, given by address
StoreBan(sender, account, flag) ==
    /\ IF sender # constants.admin
       THEN /\ response' = Response(IF flag THEN "ban" ELSE "unban", sender, Absent,
                                    "Err", "Unauthorized", FALSE, <<>>)
            /\ UNCHANGED banned
       ELSE /\ banned' = IF flag THEN banned \cup {account} ELSE banned \ {account}
            /\ response' = Response(IF flag THEN "ban" ELSE "unban", sender, Absent,
                                    "Success", "", FALSE, <<>>)
    /\ UNCHANGED <<new_admin, new_admin_count, rated, upvotes, downvotes, comments,
                  constants, fardel_count, fardel_log, id_to_fardel, hash_to_id,
                   unpack_count, sealed, hidden, removed, unpacked_log, unpacked_map,
                   pending_log, pending_start, pending_map, blocked, deactivated,
                   now>>

\* the block time moves on between calls
Tick ==
    /\ now + 1 \in Times
    /\ now' = now + 1
    /\ response' = Response("tick", Operator, Absent, "Success", "", FALSE, <<>>)
    /\ UNCHANGED store

\* ------------------------------------------------------------------ UnpackFardel

\* the chain of checks without the look at the sender's unpack record
unpack_check_unrecorded(f, owner, sender, sent_amount) ==
    IF \/ is_banned(banned, owner)
       \/ is_deactivated(deactivated, owner)
       \/ is_blocked_by(blocked, owner, sender)
    THEN "Unauthorized"
    ELSE IF get_pending_unpacked_status_by_fardel_id(pending_map, sender, f.global_id).value
    THEN "AlreadyPending"
    ELSE IF get_sealed_status(sealed, f.global_id) THEN "Sealed"
    ELSE IF f.seal_time > 0 /\ f.seal_time < now THEN "Expired"
    ELSE IF sold_out(f, unpack_count) THEN "SoldOut"
    ELSE IF sent_amount # f.cost THEN "PaymentMismatch"
    ELSE "Ok"

\* the chain of checks without the look at the sender's pending marker
unpack_check_unmarked(f, owner, sender, sent_amount) ==
    IF \/ is_banned(banned, owner)
       \/ is_deactivated(deactivated, owner)
       \/ is_blocked_by(blocked, owner, sender)
    THEN "Unauthorized"
    ELSE IF get_unpacked_status_by_fardel_id(unpacked_map, sender, f.global_id)
    THEN "AlreadyUnpacked"
    ELSE IF get_sealed_status(sealed, f.global_id) THEN "Sealed"
    ELSE IF f.seal_time > 0 /\ f.seal_time < now THEN "Expired"
    ELSE IF sold_out(f, unpack_count) THEN "SoldOut"
    ELSE IF sent_amount # f.cost THEN "PaymentMismatch"
    ELSE "Ok"

\* the chain of checks with the fardel expiring at its seal time, not after it
unpack_check_expire_at(f, owner, sender, sent_amount) ==
    IF \/ is_banned(banned, owner)
       \/ is_deactivated(deactivated, owner)
       \/ is_blocked_by(blocked, owner, sender)
    THEN "Unauthorized"
    ELSE IF get_unpacked_status_by_fardel_id(unpacked_map, sender, f.global_id)
    THEN "AlreadyUnpacked"
    ELSE IF get_pending_unpacked_status_by_fardel_id(pending_map, sender, f.global_id).value
    THEN "AlreadyPending"
    ELSE IF get_sealed_status(sealed, f.global_id) THEN "Sealed"
    ELSE IF f.seal_time > 0 /\ f.seal_time <= now THEN "Expired"
    ELSE IF sold_out(f, unpack_count) THEN "SoldOut"
    ELSE IF sent_amount # f.cost THEN "PaymentMismatch"
    ELSE "Ok"

\* the chain of checks with the payment looked at first
unpack_check_payment_first(f, owner, sender, sent_amount) ==
    IF sent_amount # f.cost THEN "PaymentMismatch"
    ELSE IF \/ is_banned(banned, owner)
            \/ is_deactivated(deactivated, owner)
            \/ is_blocked_by(blocked, owner, sender)
    THEN "Unauthorized"
    ELSE IF get_unpacked_status_by_fardel_id(unpacked_map, sender, f.global_id)
    THEN "AlreadyUnpacked"
    ELSE IF get_pending_unpacked_status_by_fardel_id(pending_map, sender, f.global_id).value
    THEN "AlreadyPending"
    ELSE IF get_sealed_status(sealed, f.global_id) THEN "Sealed"
    ELSE IF f.seal_time > 0 /\ f.seal_time < now THEN "Expired"
    ELSE IF sold_out(f, unpack_count) THEN "SoldOut"
    ELSE "Ok"

\* the chain of checks without the sealed check
unpack_check_unsealed(f, owner, sender, sent_amount) ==
    IF \/ is_banned(banned, owner)
       \/ is_deactivated(deactivated, owner)
       \/ is_blocked_by(blocked, owner, sender)
    THEN "Unauthorized"
    ELSE IF get_unpacked_status_by_fardel_id(unpacked_map, sender, f.global_id)
    THEN "AlreadyUnpacked"
    ELSE IF get_pending_unpacked_status_by_fardel_id(pending_map, sender, f.global_id).value
    THEN "AlreadyPending"
    ELSE IF f.seal_time > 0 /\ f.seal_time < now THEN "Expired"
    ELSE IF sold_out(f, unpack_count) THEN "SoldOut"
    ELSE IF sent_amount # f.cost THEN "PaymentMismatch"
    ELSE "Ok"

\* try_unpack_fardel, the chain of checks on a fardel that exists, in the
\* order of the code; "Ok" when the unpack goes ahead
unpack_check(f, owner, sender, sent_amount) ==
    IF \/ is_banned(banned, owner)
       \/ is_deactivated(deactivated, owner)
       \/ is_blocked_by(blocked, owner, sender)
    THEN "Unauthorized"
    ELSE IF get_unpacked_status_by_fardel_id(unpacked_map, sender, f.global_id)
    THEN "AlreadyUnpacked"
    ELSE IF get_pending_unpacked_status_by_fardel_id(pending_map, sender, f.global_id).value
    THEN "AlreadyPending"
    ELSE IF get_sealed_status(sealed, f.global_id) THEN "Sealed"
    ELSE IF f.seal_time > 0 /\ f.seal_time < now THEN "Expired"
    ELSE IF sold_out(f, unpack_count) THEN "SoldOut"
    ELSE IF sent_amount # f.cost THEN "PaymentMismatch"
    ELSE "Ok"

\* the sold-out check without its seal
sold_out_no_seal(flags, f) == flags

\* the sold-out check sealing whatever the fardel
sold_out_seal_always(flags, f) == seal_fardel(flags, f.global_id)

\* the sealed flags after the sold-out check has fired
sold_out_seal(flags, f) ==
    IF ~f.approval_req THEN seal_fardel(flags, f.global_id) ELSE flags

\* store_pending_unpack: push the approval to the owner's queue
push_pending_unpack(log, owner, unpacker, fardel_id, sent_amount) ==
    [log EXCEPT ![owner] =
        Append(@, PendingUnpackApproval(fardel_id, unpacker, sent_amount, FALSE))]

\* the marker written at the length of the queue, one past the new entry
map_pending_at_len(map, fardel_id, unpacker, idx, value) ==
    [map EXCEPT ![<<unpacker, fardel_id>>] = MyPendingUnpack(idx + 1, value)]

\* store_pending_unpack: the unpacker's marker, at the index of the new entry
map_global_id_to_pending_unpacked_by_unpacker(map, fardel_id, unpacker, idx, value) ==
    [map EXCEPT ![<<unpacker, fardel_id>>] = MyPendingUnpack(idx, value)]

\* the messages of a direct unpack with the commission sent even when it is zero
unpack_messages_both(owner, admin, fee) ==
    <<BankSend(owner, fee.payment), BankSend(admin, fee.commission)>>

\* the messages of a direct unpack: the payment, then the commission if any
unpack_messages(owner, admin, fee) ==
    <<BankSend(owner, fee.payment)>>
    \o (IF fee.commission > 0 THEN <<BankSend(admin, fee.commission)>> ELSE <<>>)

\* the unit reserved before the checks, and kept when they fail
unpack_count_reserved_first(check, counts, fardel_id) ==
    increment_fardel_unpack_count(counts, fardel_id)

\* the unpack count the call leaves: a unit is reserved when the unpack goes
\* ahead, pending or not
unpack_count_after(check, counts, fardel_id) ==
    IF check = "Ok" THEN increment_fardel_unpack_count(counts, fardel_id)
    ELSE counts

\* the sealed flags the call leaves: latched by the expiry and sold-out checks
sealed_after(check, flags, f) ==
    IF check = "Expired" THEN seal_fardel(flags, f.global_id)
    ELSE IF check = "SoldOut" THEN sold_out_seal(flags, f)
    ELSE flags

\* the status message of a failed check
unpack_msg(check) == IF check = "Expired" THEN "Sealed" ELSE check

UnpackFardel(sender, hash, sent_amount) ==
    /\ UNCHANGED <<new_admin, new_admin_count, rated, upvotes, downvotes, comments,
                  constants, fardel_count, fardel_log, id_to_fardel, hash_to_id,
                   hidden, removed, pending_start, blocked, banned, deactivated,
                   now>>
    /\ IF hash_to_id[hash] = Absent
       THEN /\ response' = UnpackResponse(sender, Absent, sent_amount, "Failure",
                                          "NotFound", FALSE, <<>>)
            /\ UNCHANGED <<unpack_count, sealed, unpacked_log, unpacked_map,
                           pending_log, pending_map>>
       ELSE
       LET f == get_fardel_by_global_id(hash_to_id[hash])
           global_id == f.global_id
           owner == get_fardel_owner(global_id)
           check == unpack_check(f, owner, sender, sent_amount)
           fee == unpack_settlement(f.cost, constants.transaction_fee)
       IN
       IF check = "Unauthorized"
       THEN /\ response' = UnpackResponse(sender, global_id, sent_amount, "Err",
                                          "Unauthorized", FALSE, <<>>)
            /\ UNCHANGED <<unpack_count, sealed, unpacked_log, unpacked_map,
                           pending_log, pending_map>>
       ELSE IF check # "Ok"
       THEN /\ sealed' = sealed_after(check, sealed, f)
            /\ unpack_count' = unpack_count_after(check, unpack_count, global_id)
            /\ response' = UnpackResponse(sender, global_id, sent_amount, "Failure",
                                          unpack_msg(check), FALSE, <<>>)
            /\ UNCHANGED <<unpacked_log, unpacked_map, pending_log, pending_map>>
       ELSE IF f.approval_req
       THEN /\ Len(pending_log[owner]) < MaxPending
            /\ pending_log' = push_pending_unpack(pending_log, owner, sender,
                                                  global_id, sent_amount)
            /\ pending_map' = map_global_id_to_pending_unpacked_by_unpacker(
                                  pending_map, global_id, sender,
                                  Len(pending_log'[owner]) - 1, TRUE)
            /\ unpack_count' = unpack_count_after(check, unpack_count, global_id)
            /\ response' = UnpackResponse(sender, global_id, sent_amount, "Success",
                                          "Pending", FALSE, <<>>)
            /\ UNCHANGED <<sealed, unpacked_log, unpacked_map>>
       ELSE IF fee = NoFee
       THEN /\ response' = UnpackResponse(sender, global_id, sent_amount, "Err",
                                          "CannotCalculate", FALSE, <<>>)
            /\ UNCHANGED <<unpack_count, sealed, unpacked_log, unpacked_map,
                           pending_log, pending_map>>
       ELSE /\ unpacked_log' = push_unpack(unpacked_log, sender, global_id)
            /\ unpacked_map' = map_global_id_to_unpacked_by_unpacker(
                                   unpacked_map, global_id, sender)
            /\ unpack_count' = unpack_count_after(check, unpack_count, global_id)
            /\ response' = UnpackResponse(sender, global_id, sent_amount, "Success",
                                          "Unpacked", TRUE,
                                          unpack_messages(owner, constants.admin, fee))
            /\ UNCHANGED <<sealed, pending_log, pending_map>>

\* the filter that lets no entry through
not_canceled_none(pu) == FALSE

\* the filter that lets canceled entries through
not_canceled_either(pu) == TRUE

\* ------------------------------------------------------------------ ApprovePendingUnpacks

not_canceled(pu) == ~pu.canceled

\* try_approve_pending_unpacks; total_commission is a u128 sum, and a sum past
\* the width either aborts the call or wraps, as the build has it
ApprovePendingUnpacks(sender, number) ==
    LET n == IF number = Absent THEN 10 ELSE number
        pending_approvals ==
            get_pending_approvals_from_start(pending_log[sender],
                                             pending_start[sender], n)
        new_idx == pending_start[sender] + Len(pending_approvals)
        approvals == SelectSeq(pending_approvals, not_canceled)
        fee == constants.transaction_fee
        total_commission == approve_total_commission(approvals, fee)
        failed == \E i \in 1 .. Len(approvals) :
                      approve_settlement(approvals[i].coin, fee) = NoFee
    IN
    /\ UNCHANGED <<new_admin, new_admin_count, rated, upvotes, downvotes, comments,
                  constants, fardel_count, fardel_log, id_to_fardel, hash_to_id,
                   unpack_count, sealed, hidden, removed, pending_log, pending_map,
                   blocked, banned, deactivated, now>>
    /\ IF n < 1
       THEN /\ response' = ApproveResponse(sender, number, "Failure",
                                           "InvalidNumber", <<>>)
            /\ UNCHANGED <<unpacked_log, unpacked_map, pending_start>>
       ELSE IF failed
       THEN /\ response' = ApproveResponse(sender, number, "Err",
                                           "CannotCalculate", <<>>)
            /\ UNCHANGED <<unpacked_log, unpacked_map, pending_start>>
       ELSE \/ /\ total_commission >= U128
               /\ response' = ApproveResponse(sender, number, "Err", "Overflow",
                                              <<>>)
               /\ UNCHANGED <<unpacked_log, unpacked_map, pending_start>>
            \/ /\ unpacked_log' = store_unpacks_log(unpacked_log, approvals)
               /\ unpacked_map' = store_unpacks_map(unpacked_map, approvals)
               /\ pending_start' = [pending_start EXCEPT ![sender] = new_idx]
               /\ response' = [ApproveResponse(sender, number, "Success", "",
                      approve_payments(approvals, fee, sender)
                      \o (IF total_commission % U128 > 0
                          THEN <<BankSend(constants.admin, total_commission % U128)>>
                          ELSE <<>>))
                      EXCEPT !.txs = approve_txs(approvals, sender)]

\* ------------------------------------------------------------------ CancelPending

\* the owner's queue with the entry after the marked one canceled
cancel_pending_entry_next(log, owner, idx) ==
    [i \in DOMAIN log |->
        IF i = owner
        THEN [k \in DOMAIN log[i] |->
                 IF k = idx + 2 THEN [log[i][k] EXCEPT !.canceled = TRUE]
                 ELSE log[i][k]]
        ELSE log[i]]

\* cancel_pending_unpack: the owner's queue with the marked entry canceled
cancel_pending_entry(log, owner, idx) ==
    [log EXCEPT ![owner][idx + 1].canceled = TRUE]

\* try_cancel_pending
CancelPending(sender, hash) ==
    /\ UNCHANGED <<new_admin, new_admin_count, rated, upvotes, downvotes, comments,
                  constants, fardel_count, fardel_log, id_to_fardel, hash_to_id,
                   sealed, hidden, removed, unpacked_log, unpacked_map,
                   pending_start, blocked, banned, deactivated, now>>
    /\ IF hash_to_id[hash] = Absent
       THEN /\ response' = Response("cancel", sender, Absent, "Err", "NotFound",
                                    FALSE, <<>>)
            /\ UNCHANGED <<unpack_count, pending_log, pending_map>>
       ELSE
       LET fardel_id == hash_to_id[hash]
           owner == get_fardel_owner(fardel_id)
           refund == get_fardel_by_global_id(fardel_id).cost
           my_pending_unpack ==
               get_pending_unpacked_status_by_fardel_id(pending_map, sender, fardel_id)
       IN
       IF ~my_pending_unpack.value
       THEN /\ response' = Response("cancel", sender, fardel_id, "Err", "NotPending",
                                    FALSE, <<>>)
            /\ UNCHANGED <<unpack_count, pending_log, pending_map>>
       ELSE /\ pending_log' = cancel_pending_entry(pending_log, owner,
                                  my_pending_unpack.pending_unpack_idx)
            /\ pending_map' = map_global_id_to_pending_unpacked_by_unpacker(
                                  pending_map, fardel_id, sender,
                                  my_pending_unpack.pending_unpack_idx, FALSE)
            /\ unpack_count' = decrement_fardel_unpack_count(unpack_count, fardel_id)
            /\ response' = Response("cancel", sender, fardel_id, "Success", "Canceled",
                                    FALSE, <<BankSend(sender, refund)>>)

\* ------------------------------------------------------------------ queries

\* FardelResponse, as far as unpacking goes; contents_data tells whether the
\* contents are in the response
FardelResponse(global_id, unpacked, pending_unpack, contents_data) ==
    [found |-> TRUE, global_id |-> global_id, unpacked |-> unpacked,
     pending_unpack |-> pending_unpack, contents_data |-> contents_data]

\* Err("Fardel not found.")
FardelNotFound ==
    [found |-> FALSE, global_id |-> Absent, unpacked |-> FALSE,
     pending_unpack |-> FALSE, contents_data |-> FALSE]

\* the contents with the pending marker taken for an unpack record
query_get_fardel_by_id_pending(address, hash) ==
    IF hash_to_id[hash] = Absent THEN FardelNotFound
    ELSE LET global_id == hash_to_id[hash] IN
         IF global_id \in removed THEN FardelNotFound
         ELSE IF address # NoAddress
                 /\ (\/ get_unpacked_status_by_fardel_id(unpacked_map, address, global_id)
                     \/ get_pending_unpacked_status_by_fardel_id(
                            pending_map, address, global_id).value)
         THEN FardelResponse(global_id, TRUE, FALSE, TRUE)
         ELSE FardelResponse(global_id, FALSE, FALSE, FALSE)

\* query_get_fardel_by_id; address is NoAddress for a query with no viewing key
query_get_fardel_by_id(address, hash) ==
    IF hash_to_id[hash] = Absent THEN FardelNotFound
    ELSE LET global_id == hash_to_id[hash]
             owner == get_fardel_owner(global_id)
             unseen == \/ is_banned(banned, owner)
                       \/ is_deactivated(deactivated, owner)
                       \/ global_id \in hidden
         IN  IF global_id \in removed THEN FardelNotFound
             ELSE IF address = NoAddress
             THEN IF unseen THEN FardelNotFound
                  ELSE FardelResponse(global_id, FALSE, FALSE, FALSE)
             ELSE IF get_unpacked_status_by_fardel_id(unpacked_map, address, global_id)
             THEN FardelResponse(global_id, TRUE, FALSE, TRUE)
             ELSE IF get_pending_unpacked_status_by_fardel_id(
                         pending_map, address, global_id).value
             THEN FardelResponse(global_id, FALSE, TRUE, FALSE)
             ELSE IF unseen THEN FardelNotFound
             ELSE FardelResponse(global_id, FALSE, FALSE, FALSE)

\* query_get_fardels: the fardels of an account, as seen from an address; all
\* of them fit the page
query_get_fardels(address, account) ==
    LET unseen(g) == \/ is_banned(banned, account)
                     \/ is_deactivated(deactivated, account)
                     \/ g \in hidden
        unpacked(g) == /\ address # NoAddress
                       /\ get_unpacked_status_by_fardel_id(unpacked_map, address, g)
        pending_unpack(g) ==
            /\ address # NoAddress
            /\ ~unpacked(g)
            /\ get_pending_unpacked_status_by_fardel_id(pending_map, address, g).value
    IN  {FardelResponse(g, unpacked(g), pending_unpack(g), unpacked(g)) :
            g \in {fardel_log[account][i].global_id :
                      i \in {k \in 1 .. Len(fardel_log[account]) :
                                LET x == fardel_log[account][k].global_id
                                IN  /\ x \notin removed
                                    /\ (~unseen(x) \/ unpacked(x)
                                        \/ pending_unpack(x))}}}

\* query_get_unpacked: the fardels an account has unpacked, its own left out;
\* an error (no fardel) for a banned or deactivated account
query_get_unpacked(account) ==
    IF is_banned(banned, account) \/ is_deactivated(deactivated, account)
    THEN {}
    ELSE {FardelResponse(unpacked_log[account][i], TRUE, FALSE, TRUE) :
             i \in {k \in 1 .. Len(unpacked_log[account]) :
                       get_fardel_owner(unpacked_log[account][k]) # account}}

\* get_number_of_unpacked_by_unpacker, get_number_of_fardels: the lengths of
\* the account's append stores
get_number_of_unpacked_by_unpacker(log, unpacker) == Len(log[unpacker])

get_number_of_fardels(log, owner) == Len(log[owner])

\* query_get_unpacked, total_count: the unpacks less the account's own fardels
total_count(account) ==
    get_number_of_unpacked_by_unpacker(unpacked_log, account)
    - get_number_of_fardels(fardel_log, account)

\* query_is_pending_unpack: an error for a banned or deactivated account, else
\* the value of the account's pending marker
query_is_pending_unpack(account, hash) ==
    IF is_banned(banned, account) \/ is_deactivated(deactivated, account)
    THEN [ok |-> FALSE, response |-> FALSE]
    ELSE [ok |-> TRUE,
          response |-> get_pending_unpacked_status_by_fardel_id(
                           pending_map, account, hash_to_id[hash]).value]

\* ------------------------------------------------------------------ get_fardels

\* the width of a page number and of a page size (u32)
U32 == Pow2(PageBits)

\* the answer to a listing of an account's fardels: the global ids in the
\* order returned; status Panic is a trap of the arithmetic
FardelsResponse(owner, page, page_size, status, fardels) ==
    [op |-> "get_fardels", sender |-> owner, id |-> Absent, sent |-> Absent,
     number |-> Absent, status |-> status, msg |-> "", contents |-> FALSE,
     messages |-> <<>>, page |-> page, page_size |-> page_size,
     fardels |-> fardels]

\* store.iter().rev()
Reverse(seq) == [i \in 1 .. Len(seq) |-> seq[Len(seq) + 1 - i]]

\* .skip(n).take(page_size) over the fardels of a log, latest first
skip_take(log, n, page_size) ==
    SubSeq(Reverse([i \in 1 .. Len(log) |-> log[i].global_id]),
           n + 1, Min(n + page_size, Len(log)))

\* get_fardels: page * page_size is a product of two u32; past the width it
\* traps or wraps, as the build has it
GetFardels(owner, page, page_size) ==
    /\ UNCHANGED <<store, now>>
    /\ IF page * page_size < U32
       THEN response' = FardelsResponse(owner, page, page_size, "Success",
                            skip_take(fardel_log[owner], page * page_size,
                                      page_size))
       ELSE \/ response' = FardelsResponse(owner, page, page_size, "Panic", <<>>)
            \/ response' = FardelsResponse(owner, page, page_size, "Success",
                               skip_take(fardel_log[owner],
                                         (page * page_size) % U32, page_size))

\* get_fardel_by_hash
get_fardel_by_hash(hash) == get_fardel_by_global_id(hash_to_id[hash])

\* ------------------------------------------------------------------ admin

\* valid_transaction_fee: a fee above 100% is an error; None is the default
DefaultFee == [nom |-> 3, denom |-> 1000]

valid_transaction_fee(val) ==
    IF val = <<>> THEN [ok |-> TRUE, fee |-> DefaultFee]
    ELSE IF val[1].nom > val[1].denom
    THEN [ok |-> FALSE, fee |-> val[1]]
    ELSE [ok |-> TRUE, fee |-> val[1]]

\* Fee::into_stored: the two parts as they are
into_stored(fee) == [nom |-> fee.nom, denom |-> fee.denom]

\* try_set_constants, for transaction_fee and max_cost; an Option<Fee> is <<>>
\* for None and <<fee>> for Some(fee), an Option<Uint128> is Absent for None
SetConstants(sender, transaction_fee, max_cost) ==
    /\ IF sender # constants.admin
       THEN /\ response' = Response("set_constants", sender, Absent, "Err",
                                    "Unauthorized", FALSE, <<>>)
            /\ UNCHANGED constants
       ELSE /\ constants' =
                   [constants EXCEPT
                       !.transaction_fee = IF transaction_fee = <<>> THEN @
                                           ELSE into_stored(transaction_fee[1]),
                       !.max_cost = IF max_cost = Absent THEN @ ELSE max_cost]
            /\ response' = Response("set_constants", sender, Absent, "Success",
                                    "", FALSE, <<>>)
    /\ UNCHANGED <<new_admin, new_admin_count, rated, upvotes, downvotes, comments,
                   fardel_count, fardel_log, id_to_fardel, hash_to_id,
                   unpack_count, sealed, hidden, removed, unpacked_log,
                   unpacked_map, pending_log, pending_start, pending_map,
                   blocked, banned, deactivated, now>>

\* the test of try_change_admin for handing over: the address was already
\* requested twice
reset_due_after_one(count) == count >= 1

reset_due(count) == count >= 2

\* try_change_admin; the number of the response is the request's number, or
\* Absent when the admin is reset
ChangeAdmin(sender, address) ==
    /\ IF sender # constants.admin
       THEN /\ response' = Response("change_admin", sender, Absent, "Err",
                                    "Unauthorized", FALSE, <<>>)
            /\ UNCHANGED <<constants, new_admin, new_admin_count>>
       ELSE IF new_admin = address
       THEN IF reset_due(new_admin_count)
            THEN /\ constants' = [constants EXCEPT !.admin = address]
                 /\ new_admin_count' = 0
                 /\ response' = Response("change_admin", sender, Absent,
                                         "Success", "Reset", FALSE, <<>>)
                 /\ UNCHANGED new_admin
            ELSE /\ new_admin_count' = new_admin_count + 1
                 /\ response' =
                        [Response("change_admin", sender, Absent, "Success",
                                  "Request", FALSE, <<>>)
                         EXCEPT !.number = new_admin_count + 1]
                 /\ UNCHANGED <<constants, new_admin>>
       ELSE /\ new_admin' = address
            /\ new_admin_count' = 1
            /\ response' = [Response("change_admin", sender, Absent, "Success",
                                     "Request", FALSE, <<>>)
                            EXCEPT !.number = 1]
            /\ UNCHANGED constants
    /\ UNCHANGED <<rated, upvotes, downvotes, comments,
                   fardel_count, fardel_log, id_to_fardel, hash_to_id,
                   unpack_count, sealed, hidden, removed, unpacked_log,
                   unpacked_map, pending_log, pending_start, pending_map,
                   blocked, banned, deactivated, now>>

\* ------------------------------------------------------------------ social_state

\* set_rated, has_rated, remove_rated, get_rating over the ratings stored; a
\* rating stored is <<TRUE>> for an upvote and <<FALSE>> for a downvote
set_rated(ratings, rater, fardel_id, rating) ==
    [ratings EXCEPT ![<<rater, fardel_id>>] = <<rating>>]

has_rated_never(ratings, rater, fardel_id) == FALSE

has_rated(ratings, rater, fardel_id) == ratings[<<rater, fardel_id>>] # Unrated

remove_rated(ratings, rater, fardel_id) ==
    [ratings EXCEPT ![<<rater, fardel_id>>] = Unrated]

get_rating(ratings, rater, fardel_id) == ratings[<<rater, fardel_id>>]

\* add_upvote_fardel, add_downvote_fardel: the u32 count plus one
add_vote(votes, fardel_id) ==
    [votes EXCEPT ![fardel_id] = (@ + 1) % U32]

\* subtract_upvote_fardel, subtract_downvote_fardel: the u32 count minus one,
\* which below zero wraps round where it does not trap
subtract_vote(votes, fardel_id) ==
    [votes EXCEPT ![fardel_id] = (@ + U32 - 1) % U32]

\* try_rate_fardel
RateFardel(sender, hash, rating) ==
    LET fardel_id == hash_to_id[hash]
    IN  /\ IF fardel_id = Absent
           THEN /\ response' = Response("rate", sender, Absent, "Err", "NotFound",
                                        FALSE, <<>>)
                /\ UNCHANGED <<rated, upvotes, downvotes>>
           ELSE IF ~get_unpacked_status_by_fardel_id(unpacked_map, sender, fardel_id)
           THEN /\ response' = Response("rate", sender, fardel_id, "Failure",
                                        "NotUnpacked", FALSE, <<>>)
                /\ UNCHANGED <<rated, upvotes, downvotes>>
           ELSE IF is_blocked_by(blocked, get_fardel_owner(fardel_id), sender)
           THEN /\ response' = Response("rate", sender, fardel_id, "Err",
                                        "Unauthorized", FALSE, <<>>)
                /\ UNCHANGED <<rated, upvotes, downvotes>>
           ELSE LET already == has_rated(rated, sender, fardel_id)
                IN  /\ rated' = IF already THEN rated
                                ELSE set_rated(rated, sender, fardel_id, rating)
                    /\ upvotes' = IF ~already /\ rating
                                  THEN add_vote(upvotes, fardel_id) ELSE upvotes
                    /\ downvotes' = IF ~already /\ ~rating
                                    THEN add_vote(downvotes, fardel_id)
                                    ELSE downvotes
                    /\ response' = Response("rate", sender, fardel_id,
                                            IF already THEN "Failure" ELSE "Success",
                                            IF already THEN "RatedAlready" ELSE "",
                                            FALSE, <<>>)
        /\ UNCHANGED <<new_admin, new_admin_count, comments,
                       constants, fardel_count, fardel_log, id_to_fardel,
                       hash_to_id, unpack_count, sealed, hidden, removed,
                       unpacked_log, unpacked_map, pending_log, pending_start,
                       pending_map, blocked, banned, deactivated, now>>

\* try_unrate_fardel; a count of zero that is to go down traps or wraps round
UnrateFardel(sender, hash) ==
    LET fardel_id == hash_to_id[hash]
    IN  /\ IF fardel_id = Absent
           THEN /\ response' = Response("unrate", sender, Absent, "Err",
                                        "NotFound", FALSE, <<>>)
                /\ UNCHANGED <<rated, upvotes, downvotes>>
           ELSE IF get_rating(rated, sender, fardel_id) = Unrated
           THEN /\ response' = Response("unrate", sender, fardel_id, "Failure",
                                        "NotRated", FALSE, <<>>)
                /\ UNCHANGED <<rated, upvotes, downvotes>>
           ELSE LET rating == get_rating(rated, sender, fardel_id)[1]
                    votes == IF rating THEN upvotes ELSE downvotes
                IN  \/ /\ votes[fardel_id] = 0
                       /\ response' = Response("unrate", sender, fardel_id,
                                               "Err", "Panic", FALSE, <<>>)
                       /\ UNCHANGED <<rated, upvotes, downvotes>>
                    \/ /\ rated' = remove_rated(rated, sender, fardel_id)
                       /\ upvotes' = IF rating
                                     THEN subtract_vote(upvotes, fardel_id)
                                     ELSE upvotes
                       /\ downvotes' = IF rating THEN downvotes
                                       ELSE subtract_vote(downvotes, fardel_id)
                       /\ response' = Response("unrate", sender, fardel_id,
                                               "Success", "", FALSE, <<>>)
        /\ UNCHANGED <<new_admin, new_admin_count, comments,
                       constants, fardel_count, fardel_log, id_to_fardel,
                       hash_to_id, unpack_count, sealed, hidden, removed,
                       unpacked_log, unpacked_map, pending_log, pending_start,
                       pending_map, blocked, banned, deactivated, now>>

\* try_comment_on_fardel; rating is <<>> for None and <<r>> for Some(r); the
\* comment stays when the rating that came with it is turned down
CommentOnFardel(sender, hash, rating) ==
    LET fardel_id == hash_to_id[hash]
    IN  /\ IF fardel_id = Absent
           THEN /\ response' = Response("comment", sender, Absent, "Err",
                                        "NotFound", FALSE, <<>>)
                /\ UNCHANGED <<rated, upvotes, downvotes, comments>>
           ELSE IF ~get_unpacked_status_by_fardel_id(unpacked_map, sender, fardel_id)
           THEN /\ response' = Response("comment", sender, fardel_id, "Failure",
                                        "NotUnpacked", FALSE, <<>>)
                /\ UNCHANGED <<rated, upvotes, downvotes, comments>>
           ELSE IF is_blocked_by(blocked, get_fardel_owner(fardel_id), sender)
           THEN /\ response' = Response("comment", sender, fardel_id, "Err",
                                        "Unauthorized", FALSE, <<>>)
                /\ UNCHANGED <<rated, upvotes, downvotes, comments>>
           ELSE LET already == has_rated(rated, sender, fardel_id)
                    given == rating # <<>>
                    counted == given /\ ~already
                IN  /\ Len(comments[fardel_id]) < MaxComments
                    /\ comments' = [comments EXCEPT
                                        ![fardel_id] = Append(@, sender)]
                    /\ rated' = IF counted
                                THEN set_rated(rated, sender, fardel_id, rating[1])
                                ELSE rated
                    /\ upvotes' = IF counted /\ rating[1]
                                  THEN add_vote(upvotes, fardel_id) ELSE upvotes
                    /\ downvotes' = IF counted /\ ~rating[1]
                                    THEN add_vote(downvotes, fardel_id)
                                    ELSE downvotes
                    /\ response' = Response("comment", sender, fardel_id,
                                            IF given /\ already THEN "Failure"
                                            ELSE "Success",
                                            IF given /\ already THEN "RatedAlready"
                                            ELSE "", FALSE, <<>>)
        /\ UNCHANGED <<new_admin, new_admin_count,
                       constants, fardel_count, fardel_log, id_to_fardel,
                       hash_to_id, unpack_count, sealed, hidden, removed,
                       unpacked_log, unpacked_map, pending_log, pending_start,
                       pending_map, blocked, banned, deactivated, now>>

\* ------------------------------------------------------------------ Spec

\* Spec: the escrow of one fardel, carried by "o", among the owner and two
\* purchasers; the owner may block "b"
Carried == {0}
\* the hash ids named by flag calls; unpack and cancel calls also name the
\* hash id of a fardel that is never carried
Hashes == {HashId(g) : g \in Carried}
NoSuchHash == HashId(MaxFardels - 1)

Next ==
    \/ \E offer \in Offers :
           /\ fardel_count \in Carried
           /\ CarryFardel("o", offer.cost, offer.countable, offer.approval_req,
                          offer.seal_time)
    \/ \E sender \in {"o", "a"}, hash \in Hashes : SealFardel(sender, hash)
    \/ \E block \in BOOLEAN : StoreBlock("o", "b", block)
    \/ \E sender \in Accounts, hash \in Hashes \cup {NoSuchHash},
          sent_amount \in Amounts :
           UnpackFardel(sender, hash, sent_amount)
    \/ \E sender \in {"o", "a"}, number \in Numbers :
           ApprovePendingUnpacks(sender, number)
    \/ \E sender \in Accounts, hash \in Hashes \cup {NoSuchHash} :
           CancelPending(sender, hash)
    \/ Tick

Spec == Init /\ [][Next]_vars

\* SpecFlags: the same escrow with the flags of the fardel and of its owner's
\* account: hide, unhide, remove, unremove, deactivate, reactivate
FlagOffers == {Offer(1000, 1, TRUE, 1), Offer(100, 1, FALSE, 0)}

FlagNext ==
    \/ \E offer \in FlagOffers :
           /\ fardel_count \in Carried
           /\ CarryFardel("o", offer.cost, offer.countable, offer.approval_req,
                          offer.seal_time)
    \/ \E sender \in {"o", "a"}, hash \in Hashes : SealFardel(sender, hash)
    \/ \E sender \in {"o", "a"}, hash \in Hashes, hide \in BOOLEAN :
           HideFardel(sender, hash, hide)
    \/ \E sender \in {Operator, "o"}, hash \in Hashes, rem \in BOOLEAN :
           RemoveFardel(sender, hash, rem)
    \/ \E flag \in BOOLEAN : StoreDeactivate("o", flag)
    \/ \E sender \in Accounts, hash \in Hashes \cup {NoSuchHash},
          sent_amount \in Amounts :
           UnpackFardel(sender, hash, sent_amount)
    \/ \E sender \in {"o", "a"}, number \in Numbers :
           ApprovePendingUnpacks(sender, number)
    \/ \E sender \in Accounts, hash \in Hashes \cup {NoSuchHash} :
           CancelPending(sender, hash)
    \/ Tick

SpecFlags == Init /\ [][FlagNext]_vars

\* SpecSettle: the settlement of one fardel of any cost under any transaction
\* fee the operator may have set, directly and through the owner's approval
MaxSettle == 9
SettleAmounts == (0 .. MaxSettle) \cup {100, 1000, U128 - 2, U128 - 1}
RateParts == {0, 1, 3, 1000, U128 - 1}
Rates == {[nom |-> n, denom |-> d] : n \in RateParts, d \in RateParts}

SettleInit ==
    /\ constants \in {[admin |-> Operator, transaction_fee |-> r,
                        max_cost |-> U128 - 1] : r \in Rates}
    /\ EmptyStore

SettleNext ==
    \/ \E cost \in SettleAmounts, approval_req \in BOOLEAN :
           /\ fardel_count \in Carried
           /\ CarryFardel("o", cost, 0, approval_req, 0)
    \/ \E sender \in {"a", "b"} :
           /\ fardel_count = 1
           /\ UnpackFardel(sender, HashId(0), get_fardel_by_global_id(0).cost)
    \/ \E number \in {Absent, 1} : ApprovePendingUnpacks("o", number)

SpecSettle == SettleInit /\ [][SettleNext]_vars

\* SpecCarry: fardels carried by two accounts with hashed ids, and the listing
\* of an account's fardels by pages
CarryOffers == {Offer(100, 1, FALSE, 0), Offer(1000, 0, TRUE, 1)}
Messages == {0, 1}
Pages == {0, 1, 2, U32 \div 2}
PageSizes == {1, 2, U32 \div 2}

CarryNext ==
    \/ \E sender \in {"o", "a"}, offer \in CarryOffers, message \in Messages :
           CarryFardelHashed(sender, offer.cost, offer.countable,
                             offer.approval_req, offer.seal_time, message)
    \/ \E owner \in {"o", "a"}, page \in Pages, page_size \in PageSizes :
           GetFardels(owner, page, page_size)
    \/ Tick

SpecCarry == Init /\ [][CarryNext]_vars

\* SpecLive: the queue of one fardel that needs approval, with an owner who
\* keeps approving: an approval of a number of at least 1 is not put off for
\* ever
LiveOffers == {Offer(100, 0, TRUE, 0), Offer(100, 2, TRUE, 0)}

KeepApproving == \E number \in Numbers \ {0} : ApprovePendingUnpacks("o", number)

LiveNext ==
    \/ \E offer \in LiveOffers :
           /\ fardel_count \in Carried
           /\ CarryFardel("o", offer.cost, offer.countable, offer.approval_req,
                          offer.seal_time)
    \/ \E sender \in {"a", "b"}, hash \in Hashes :
           UnpackFardel(sender, hash, 100)
    \/ \E number \in Numbers : ApprovePendingUnpacks("o", number)
    \/ \E sender \in {"a", "b"}, hash \in Hashes : CancelPending(sender, hash)

SpecLive == Init /\ [][LiveNext]_vars /\ WF_vars(KeepApproving)

\* SpecAdmin: the admin sets the transaction fee and the cost limit and hands
\* the contract over, while a fardel is carried and unpacked under the fee set
AdminRates == {[nom |-> 3, denom |-> 1000], [nom |-> 1, denom |-> 1],
               [nom |-> 2, denom |-> 1]}
Admins == {Operator, "a", "b"}

AdminNext ==
    \/ \E sender \in {Operator, "a"},
          transaction_fee \in {<<>>} \cup {<<r>> : r \in AdminRates},
          max_cost \in {Absent, 100} :
           SetConstants(sender, transaction_fee, max_cost)
    \/ \E sender \in {Operator, "a"}, address \in Admins :
           ChangeAdmin(sender, address)
    \/ /\ fardel_count \in Carried
       /\ CarryFardel("o", 100, 0, FALSE, 0)
    \/ UnpackFardel("b", HashId(0), 100)

SpecAdmin == Init /\ [][AdminNext]_vars

\* SpecSocial: a fardel carried by "o" and unpacked by "a" and "b" is rated,
\* unrated and commented on by the three of them; the owner may block "b"
Ratings == BOOLEAN

SocialNext ==
    \/ /\ fardel_count \in Carried
       /\ CarryFardel("o", 100, 0, FALSE, 0)
    \/ \E sender \in {"a", "b"} : UnpackFardel(sender, HashId(0), 100)
    \/ \E block \in BOOLEAN : StoreBlock("o", "b", block)
    \/ \E sender \in Accounts, hash \in Hashes \cup {NoSuchHash},
          rating \in Ratings :
           RateFardel(sender, hash, rating)
    \/ \E sender \in Accounts, hash \in Hashes \cup {NoSuchHash} :
           UnrateFardel(sender, hash)
    \/ \E sender \in Accounts, hash \in Hashes,
          rating \in {<<>>} \cup {<<r>> : r \in Ratings} :
           CommentOnFardel(sender, hash, rating)

SpecSocial == Init /\ [][SocialNext]_vars

\* SpecQueues: two owners, "o" and "a", each with fardels that need approval,
\* and the queues of both: any account asks for, approves and cancels
QueueOwners == {"o", "a"}
QueueHashes == {HashId(g) : g \in GlobalIds}

QueueNext ==
    \/ \E sender \in QueueOwners :
           /\ fardel_count = (IF sender = "o" THEN 0 ELSE 1)
           /\ CarryFardel(sender, 100, 0, TRUE, 0)
    \/ \E sender \in {"a", "b"}, hash \in QueueHashes :
           /\ fardel_count = Cardinality(QueueOwners)
           /\ UnpackFardel(sender, hash, 100)
    \/ \E sender \in Accounts : ApprovePendingUnpacks(sender, 1)
    \/ \E sender \in {"a", "b"}, hash \in QueueHashes : CancelPending(sender, hash)

SpecQueues == Init /\ [][QueueNext]_vars

\* SpecToggle: the flags of the fardels of one owner, set and cleared in any
\* order by the owner, by another account and by the admin
ToggleHashes == {HashId(g) : g \in GlobalIds}

ToggleNext ==
    \/ CarryFardel("o", 100, 0, FALSE, 0)
    \/ \E sender \in {"o", "a"}, hash \in ToggleHashes : SealFardel(sender, hash)
    \/ \E sender \in {"o", "a"}, hash \in ToggleHashes, hide \in BOOLEAN :
           HideFardel(sender, hash, hide)
    \/ \E sender \in {Operator, "o"}, hash \in ToggleHashes, rem \in BOOLEAN :
           RemoveFardel(sender, hash, rem)

SpecToggle == Init /\ [][ToggleNext]_vars

\* ------------------------------------------------------------------ views

\* the global ids of the fardels carried so far
Stored == {g \in GlobalIds : g < fardel_count}

\* the purchasers holding an unpack record for a fardel (its owner's record is
\* written when the fardel is carried)
Unpackers(g) ==
    {p \in Accounts : /\ p # get_fardel_owner(g)
                      /\ get_unpacked_status_by_fardel_id(unpacked_map, p, g)}

\* the entries of the owner's queue that still await approval for a fardel
Awaiting(g) ==
    {i \in 1 .. Len(pending_log[get_fardel_owner(g)]) :
        /\ i > pending_start[get_fardel_owner(g)]
        /\ pending_log[get_fardel_owner(g)][i].fardel_id = g
        /\ ~pending_log[get_fardel_owner(g)][i].canceled}

\* the seal time of a fardel has passed
PastSealTime(f) == f.seal_time > 0 /\ f.seal_time < now

\* the owner of a fardel turns the sender away
TurnedAway(p, g) ==
    \/ get_fardel_owner(g) \in banned
    \/ get_fardel_owner(g) \in deactivated
    \/ <<get_fardel_owner(g), p>> \in blocked

\* a sender with no record and no pending unpack of an open fardel
Admissible(p, g) ==
    /\ ~TurnedAway(p, g)
    /\ <<p, g>> \notin unpacked_map
    /\ ~pending_map[<<p, g>>].value
    /\ g \notin sealed
    /\ ~PastSealTime(get_fardel_by_global_id(g))

\* the escrow records of unpacks
escrow == <<unpack_count, pending_log, pending_start, pending_map,
            unpacked_log, unpacked_map>>

\* ------------------------------------------------------------------ claims

\* C9: on a fardel with a limit above zero the unpack count never exceeds the
\* limit, and the remaining count reported for it is the limit less the count,
\* never below zero.
UnitsWithinLimit ==
    \A g \in Stored :
        LET f == get_fardel_by_global_id(g) IN
        f.countable > 0 =>
            /\ unpack_count[g] <= f.countable
            /\ remaining(f, unpack_count) = f.countable - unpack_count[g]
            /\ remaining(f, unpack_count) >= 0

\* a fardel at its limit has just turned a request away
UnitsAtLimit ==
    /\ response.op = "unpack"
    /\ response.msg = "SoldOut"
    /\ get_fardel_by_global_id(response.id).countable > 0
    /\ unpack_count[response.id] = get_fardel_by_global_id(response.id).countable

\* C5: no call clears the sealed flag of a fardel: seal, the expiry and sold-out
\* checks of unpack set it, and hide, unhide, remove, unremove, approve and
\* cancel leave it as it is.
SealMonotone ==
    [][/\ sealed \subseteq sealed'
       /\ response'.op \notin {"seal", "unpack"} => sealed' = sealed]_vars

\* a pending unpack of a sealed fardel has just been canceled
CanceledWhileSealed ==
    /\ response.op = "cancel"
    /\ response.status = "Success"
    /\ response.id \in sealed

\* C6: an unpack call on a sealed fardel never succeeds: it reserves no unit,
\* queues no pending unpack, writes no unpack record and sends nothing.
NoUnpackAfterSeal ==
    [][(/\ response'.op = "unpack"
        /\ response'.id # Absent
        /\ response'.id \in sealed)
       => (/\ response'.status # "Success"
           /\ ~response'.contents
           /\ response'.messages = <<>>
           /\ UNCHANGED escrow)]_vars

\* an unpack paid in full has just been refused on a fardel with no seal time,
\* sealed by its owner or by selling out
RefusedAfterSeal ==
    /\ response.op = "unpack"
    /\ response.msg = "Sealed"
    /\ response.sender # get_fardel_owner(response.id)
    /\ get_fardel_by_global_id(response.id).seal_time = 0
    /\ response.sent = get_fardel_by_global_id(response.id).cost

\* C8: an unpack call that is rejected (not found, payment mismatch,
\* unauthorized, already unpacked, already pending, sealed, expired, sold out)
\* leaves the unpack count, the pending queue and the unpack records as they
\* were and sends nothing; the sealed flag is the only thing it may set, and
\* only on the expiry and sold-out rejections.
RejectedRequestFrame ==
    [][(response'.op = "unpack" /\ response'.status # "Success")
       => (/\ UNCHANGED escrow
           /\ UNCHANGED <<fardel_count, fardel_log, hidden, removed, blocked>>
           /\ response'.messages = <<>>
           /\ ~response'.contents
           /\ sealed \subseteq sealed'
           /\ sealed' # sealed => response'.msg \in {"Sealed", "SoldOut"})]_vars

\* a mismatched payment has just been rejected on a fardel with a unit reserved
RejectedWithUnitReserved ==
    /\ response.op = "unpack"
    /\ response.msg = "PaymentMismatch"
    /\ unpack_count[response.id] = 1
    /\ Awaiting(response.id) # {}

\* C10: an unpack call that passes the earlier checks on a fardel with a limit
\* above zero and as many unpacks as the limit is rejected as sold out; the
\* rejection seals the fardel when it needs no approval and leaves the sealed
\* flag alone when it does. On a fardel of cost 100, limit 1, no approval, the
\* first purchaser's paid unpack succeeds with the contents and a count of 1,
\* and the next purchaser's is rejected as sold out and seals the fardel.
SoldOutHandling ==
    [][(/\ response'.op = "unpack"
        /\ response'.id # Absent
        /\ Admissible(response'.sender, response'.id))
       => LET g == response'.id
              f == get_fardel_by_global_id(g)
          IN  /\ (f.countable > 0 /\ unpack_count[g] >= f.countable)
                 => /\ response'.status = "Failure"
                    /\ response'.msg = "SoldOut"
                    /\ sealed' = IF f.approval_req THEN sealed
                                 ELSE sealed \cup {g}
              /\ (/\ f.cost = 100
                  /\ f.countable = 1
                  /\ ~f.approval_req
                  /\ response'.sent = 100)
                 => IF unpack_count[g] = 0
                    THEN /\ response'.status = "Success"
                         /\ response'.contents
                         /\ unpack_count'[g] = 1
                    ELSE /\ response'.msg = "SoldOut"
                         /\ g \in sealed']_vars

\* the second purchaser has just been told the fardel of limit 1 is sold out
SecondPurchaserSoldOut ==
    /\ response.op = "unpack"
    /\ response.sender = "b"
    /\ response.msg = "SoldOut"
    /\ response.id \in sealed
    /\ get_fardel_by_global_id(response.id).cost = 100
    /\ get_fardel_by_global_id(response.id).countable = 1
    /\ ~get_fardel_by_global_id(response.id).approval_req
    /\ Unpackers(response.id) = {"a"}
    /\ unpack_count[response.id] = 1

\* the entries of the owner's queue that an approval has settled for a
\* purchaser of a fardel
Settled(p, g) ==
    {i \in 1 .. pending_start[get_fardel_owner(g)] :
        /\ pending_log[get_fardel_owner(g)][i].fardel_id = g
        /\ pending_log[get_fardel_owner(g)][i].unpacker = p
        /\ ~pending_log[get_fardel_owner(g)][i].canceled}

\* the entries of an owner's queue that a call has moved the start past
Examined(owner) ==
    {i \in 1 .. Len(pending_log[owner]) :
        i > pending_start[owner] /\ i <= pending_start'[owner]}

\* the amounts a response sends to an account
SentTo(r, to) ==
    {i \in 1 .. Len(r.messages) : r.messages[i].to = to}

\* a transaction fee the validation admits, with a quotient to take
ValidFee(fee) == fee.nom <= fee.denom /\ fee.denom > 0

\* C1: for a fardel with a limit N above zero, the purchasers holding an unpack
\* record (by direct unpack or by approval) and the pending unpacks neither
\* canceled nor settled never number more than N together; and an unpack that
\* is accepted never takes the count past N.
InventoryConservation ==
    \A g \in Stored :
        LET f == get_fardel_by_global_id(g) IN
        f.countable > 0 =>
            /\ Cardinality(Unpackers(g)) + Cardinality(Awaiting(g)) <= f.countable
            /\ (response.op = "unpack" /\ response.status = "Success"
                /\ response.id = g) => unpack_count[g] <= f.countable

\* C2: once an approval has settled a purchaser's pending unpack, a cancel by
\* that purchaser for that fardel fails, refunds nothing, marks no entry
\* canceled and leaves the unpack count alone; and an approval writes one unpack
\* record and one payment for each entry it examines that is not canceled, and
\* none for a canceled one.
TerminalOutcomes ==
    [][/\ (/\ response'.op = "cancel"
           /\ response'.id # Absent
           /\ Settled(response'.sender, response'.id) # {})
          => (/\ response'.status = "Err"
              /\ response'.messages = <<>>
              /\ UNCHANGED escrow)
       /\ (response'.op = "approve" /\ response'.status = "Success")
          => LET owner == response'.sender
                 live == {i \in Examined(owner) : ~pending_log[owner][i].canceled}
             IN  /\ Cardinality(SentTo(response', owner)) = Cardinality(live)
                 /\ \A p \in Accounts :
                        Len(unpacked_log'[p]) - Len(unpacked_log[p])
                        = Cardinality({i \in live :
                                          pending_log[owner][i].unpacker = p})]_vars

\* C3: the unpack history of an account holds a fardel at most once; and an
\* unpack call by an account that already holds the record of the fardel
\* returns AlreadyUnpacked, reserves no unit, queues nothing and pays nothing.
AtMostOnceUnlockAlways ==
    [][/\ \A p \in Accounts : \A i, j \in 1 .. Len(unpacked_log'[p]) :
              unpacked_log'[p][i] = unpacked_log'[p][j] => i = j
       /\ (/\ response'.op = "unpack"
           /\ response'.id # Absent
           /\ <<response'.sender, response'.id>> \in unpacked_map)
          => (/\ response'.msg = "AlreadyUnpacked"
              /\ response'.messages = <<>>
              /\ UNCHANGED escrow)]_vars

\* C3, with the owner's gate: the unpack history of an account holds a fardel
\* at most once; and an unpack call by an account that already holds the record
\* of the fardel reserves no unit, queues nothing and pays nothing, returning
\* AlreadyUnpacked unless the owner is banned or deactivated or has blocked the
\* account, when the call fails as unauthorized.
AtMostOnceUnlock ==
    [][/\ \A p \in Accounts : \A i, j \in 1 .. Len(unpacked_log'[p]) :
              unpacked_log'[p][i] = unpacked_log'[p][j] => i = j
       /\ (/\ response'.op = "unpack"
           /\ response'.id # Absent
           /\ <<response'.sender, response'.id>> \in unpacked_map)
          => (/\ response'.msg = IF TurnedAway(response'.sender, response'.id)
                                 THEN "Unauthorized" ELSE "AlreadyUnpacked"
              /\ response'.status # "Success"
              /\ response'.messages = <<>>
              /\ UNCHANGED escrow)]_vars

\* a purchaser whose unpack was approved has just paid for the fardel again
\* and been told it is already unpacked
UnpackedTwiceRefused ==
    /\ response.op = "unpack"
    /\ response.msg = "AlreadyUnpacked"
    /\ response.sender \in Unpackers(response.id)
    /\ Settled(response.sender, response.id) # {}
    /\ response.sent = get_fardel_by_global_id(response.id).cost

\* C7: a successful cancel takes one off the unpack count of the fardel; and an
\* unpack call with the cost paid, made by the same account for the same fardel
\* right after its successful cancel, on a fardel neither sealed nor past its
\* seal time whose owner does not turn the account away, is queued as a new
\* pending unpack and puts one on the unpack count again.
CancellationReversible ==
    [][/\ (response'.op = "cancel" /\ response'.status = "Success")
          => unpack_count'[response'.id] = unpack_count[response'.id] - 1
       /\ (/\ response.op = "cancel"
           /\ response.status = "Success"
           /\ response'.op = "unpack"
           /\ response'.sender = response.sender
           /\ response'.id = response.id
           /\ response'.sent = get_fardel_by_global_id(response.id).cost
           /\ ~TurnedAway(response.sender, response.id)
           /\ response.id \notin sealed
           /\ ~PastSealTime(get_fardel_by_global_id(response.id)))
          => (/\ response'.status = "Success"
              /\ response'.msg = "Pending"
              /\ unpack_count'[response.id] = unpack_count[response.id] + 1)]_vars

AwaitingOf(p, g) ==
    {i \in Awaiting(g) : pending_log[get_fardel_owner(g)][i].unpacker = p}

\* the commission of an amount under the stored transaction fee
Commission(amount) ==
    (amount * constants.transaction_fee.nom) \div constants.transaction_fee.denom

ApprovalEffect ==
    [][(response'.op = "approve" /\ response'.status = "Success")
       => LET owner == response'.sender
              n == IF response'.number = Absent THEN 10 ELSE response'.number
              last == IF pending_start[owner] + n <= Len(pending_log[owner])
                      THEN pending_start[owner] + n ELSE Len(pending_log[owner])
              live == {i \in (pending_start[owner] + 1) .. last :
                          ~pending_log[owner][i].canceled}
              cost == IF fardel_count > 0 THEN get_fardel_by_global_id(0).cost
                      ELSE 0
              payments == SentTo(response', owner)
              fees == SentTo(response', constants.admin)
          IN  /\ pending_start'[owner] = last
              /\ \A i \in live :
                     /\ <<pending_log[owner][i].unpacker,
                          pending_log[owner][i].fardel_id>> \in unpacked_map'
                     /\ pending_log[owner][i].coin = cost
              /\ Cardinality(payments) = Cardinality(live)
              /\ \A k \in payments :
                     response'.messages[k].amount + Commission(cost) = cost
              /\ \A k \in fees :
                     response'.messages[k].amount
                     = Cardinality(live) * Commission(cost)
              /\ Cardinality(fees) =
                     IF Cardinality(live) * Commission(cost) > 0
                     THEN 1 ELSE 0
              /\ UNCHANGED <<unpack_count, pending_log, pending_map, sealed>>]_vars

\* an approval of one has just settled and paid the first of two live entries
FirstOfTwoApproved ==
    /\ response.op = "approve"
    /\ response.number = 1
    /\ Len(response.messages) = 1
    /\ pending_start["o"] = 1
    /\ Cardinality(Awaiting(0)) = 1
    /\ Cardinality(Unpackers(0)) = 1

Uncanceled(p, g) ==
    {i \in 1 .. Len(pending_log[get_fardel_owner(g)]) :
        /\ pending_log[get_fardel_owner(g)][i].fardel_id = g
        /\ pending_log[get_fardel_owner(g)][i].unpacker = p
        /\ ~pending_log[get_fardel_owner(g)][i].canceled}

\* C14: a cancel by an account with no pending unpack of the fardel (none ever
\* requested, or the one requested already canceled) fails, refunds nothing and
\* leaves the queue, the markers and the unpack count as they were; so the
\* second of two cancels in a row refunds nothing and takes nothing off the
\* count.
CancelWithoutPending ==
    [][(/\ response'.op = "cancel"
        /\ response'.id # Absent => Uncanceled(response'.sender, response'.id) = {})
       => (/\ response'.status = "Err"
           /\ response'.messages = <<>>
           /\ UNCHANGED escrow
           /\ UNCHANGED sealed)]_vars

\* the purchaser who canceled has just tried to cancel again
CanceledTwice ==
    /\ response.op = "cancel"
    /\ response.status = "Err"
    /\ response.id # Absent
    /\ unpack_count[response.id] = 0
    /\ \E i \in 1 .. Len(pending_log["o"]) :
           /\ pending_log["o"][i].unpacker = response.sender
           /\ pending_log["o"][i].canceled
    /\ <<response.sender, response.id>> \notin unpacked_map

\* C15: an account has at most one live pending unpack of a fardel; and an
\* unpack call by an account with a live pending unpack of the fardel is
\* rejected as already pending, reserves no unit and queues nothing.
PendingOnceAlways ==
    [][/\ \A p \in Accounts : \A g \in Stored' :
              Cardinality(AwaitingOf(p, g))' <= 1
       /\ (/\ response'.op = "unpack"
           /\ response'.id # Absent
           /\ AwaitingOf(response'.sender, response'.id) # {})
          => (/\ response'.msg = "AlreadyPending"
              /\ response'.messages = <<>>
              /\ UNCHANGED escrow)]_vars

\* C15, with the owner's gate: an account has at most one live pending unpack
\* of a fardel; and an unpack call by an account with a live pending unpack of
\* the fardel reserves no unit and queues nothing, rejected as already pending
\* unless the owner is banned or deactivated or has blocked the account, when
\* the call fails as unauthorized.
PendingOnce ==
    [][/\ \A p \in Accounts : \A g \in Stored' :
              Cardinality(AwaitingOf(p, g))' <= 1
       /\ (/\ response'.op = "unpack"
           /\ response'.id # Absent
           /\ AwaitingOf(response'.sender, response'.id) # {})
          => (/\ response'.msg = IF TurnedAway(response'.sender, response'.id)
                                 THEN "Unauthorized" ELSE "AlreadyPending"
              /\ response'.status # "Success"
              /\ response'.messages = <<>>
              /\ UNCHANGED escrow)]_vars

\* a purchaser with a live pending unpack has just paid for the fardel again
PendingTwiceRefused ==
    /\ response.op = "unpack"
    /\ response.msg = "AlreadyPending"
    /\ AwaitingOf(response.sender, response.id) # {}
    /\ response.sent = get_fardel_by_global_id(response.id).cost
    /\ unpack_count[response.id] = 1

BeforeExpiryCheck(p, g) ==
    /\ ~TurnedAway(p, g)
    /\ <<p, g>> \notin unpacked_map
    /\ ~pending_map[<<p, g>>].value
    /\ g \notin sealed

\* C17: an unpack call that passes the earlier checks on a fardel with a seal
\* time, at a block time after the seal time, is rejected as sealed and leaves
\* the fardel sealed; at a block time up to the seal time, or on a fardel with
\* seal time 0, it is not rejected for expiry; and the passing of time alone
\* never changes the sealed flags.
LazyExpiry ==
    [][/\ (/\ response'.op = "unpack"
           /\ response'.id # Absent
           /\ BeforeExpiryCheck(response'.sender, response'.id))
          => LET g == response'.id
                 f == get_fardel_by_global_id(g)
             IN  IF f.seal_time # 0 /\ now > f.seal_time
                 THEN /\ response'.status = "Failure"
                      /\ response'.msg = "Sealed"
                      /\ g \in sealed'
                      /\ UNCHANGED escrow
                 ELSE /\ response'.msg # "Sealed"
                      /\ g \in sealed' => response'.msg = "SoldOut"
       /\ response'.op = "tick" => sealed' = sealed]_vars

\* a paid unpack has just been rejected on a fardel past its seal time
ExpiredOnRequest ==
    /\ response.op = "unpack"
    /\ response.msg = "Sealed"
    /\ response.sender # get_fardel_owner(response.id)
    /\ get_fardel_by_global_id(response.id).seal_time = 1
    /\ now = 2
    /\ response.id \in sealed
    /\ response.sent = get_fardel_by_global_id(response.id).cost
    /\ unpack_count[response.id] = 0

\* a fardel with a limit that its unpack count has reached
AtLimit(g) ==
    /\ get_fardel_by_global_id(g).countable > 0
    /\ unpack_count[g] >= get_fardel_by_global_id(g).countable

\* C18: an unpack call for a fardel that exists, with an amount other than the
\* cost, is rejected for the payment whatever else holds, and does not set the
\* sealed flag.
PaymentFirst ==
    [][(/\ response'.op = "unpack"
        /\ response'.id # Absent
        /\ response'.sent # get_fardel_by_global_id(response'.id).cost)
       => (/\ response'.msg = "PaymentMismatch"
           /\ sealed' = sealed)]_vars

\* C18, with the payment looked at last: an unpack call for a fardel that
\* exists, with an amount other than the cost, never succeeds and changes no
\* escrow record; it is rejected for the payment exactly when it passes the
\* unauthorized, already-unpacked, already-pending, sealed, expiry and sold-out
\* checks, and then the sealed flag stays; on a fardel past its seal time or
\* sold out it is rejected for that, and sets the sealed flag as a call with
\* the right amount does.
PaymentLast ==
    [][(/\ response'.op = "unpack"
        /\ response'.id # Absent
        /\ response'.sent # get_fardel_by_global_id(response'.id).cost)
       => LET g == response'.id
              p == response'.sender
          IN  /\ response'.status # "Success"
              /\ response'.messages = <<>>
              /\ UNCHANGED escrow
              /\ response'.msg = "PaymentMismatch"
                 <=> (Admissible(p, g) /\ ~AtLimit(g))
              /\ response'.msg = "PaymentMismatch" => sealed' = sealed
              /\ (BeforeExpiryCheck(p, g)
                  /\ PastSealTime(get_fardel_by_global_id(g)))
                 => (response'.msg = "Sealed" /\ g \in sealed')
              /\ (Admissible(p, g) /\ AtLimit(g))
                 => /\ response'.msg = "SoldOut"
                    /\ ~get_fardel_by_global_id(g).approval_req => g \in sealed']_vars

\* a call with the wrong amount has just been told the fardel is sold out, and
\* has sealed it
WrongAmountSoldOut ==
    /\ response.op = "unpack"
    /\ response.msg = "SoldOut"
    /\ response.sent # get_fardel_by_global_id(response.id).cost
    /\ response.id \in sealed

\* C19: while a fardel is hidden, an unpack call for it by an account with no
\* unpack record of it is rejected and reserves no unit; and an account that
\* holds the unpack record still gets the contents from the query by id.
HiddenNotUnpackable ==
    [][/\ (/\ response'.op = "unpack"
           /\ response'.id # Absent
           /\ response'.id \in hidden
           /\ <<response'.sender, response'.id>> \notin unpacked_map)
          => (/\ response'.status # "Success"
              /\ unpack_count' = unpack_count)
       /\ \A p \in Accounts : \A g \in Stored :
              (g \in hidden /\ g \notin removed /\ <<p, g>> \in unpacked_map)
              => query_get_fardel_by_id(p, HashId(g)).contents_data]_vars

\* the contents of a fardel as the queries and the last response give them to
\* an account
Released(p, g) ==
    \/ query_get_fardel_by_id(p, HashId(g)).contents_data
    \/ \E r \in query_get_fardels(p, get_fardel_owner(g)) :
           r.global_id = g /\ r.contents_data
    \/ \E r \in query_get_unpacked(p) : r.global_id = g /\ r.contents_data
    \/ (response.op = "unpack" /\ response.sender = p /\ response.id = g
        /\ response.contents)

\* C20: the contents of a fardel are given to an account (by an unpack call,
\* the query by id, the query of an account's fardels or the query of the
\* account's unpacks) only if the account holds an unpack record of the
\* fardel; a query without an address gets no contents.
PayloadRelease ==
    \A g \in Stored :
        /\ \A p \in Accounts :
               Released(p, g) => get_unpacked_status_by_fardel_id(unpacked_map, p, g)
        /\ ~query_get_fardel_by_id(NoAddress, HashId(g)).contents_data
        /\ \A r \in query_get_fardels(NoAddress, get_fardel_owner(g)) :
               ~r.contents_data

\* one purchaser waits for approval and sees the fardel without its contents
\* while the other has canceled and the owner reads the contents
PendingSeesNoPayload ==
    /\ fardel_count = 1
    /\ AwaitingOf("a", 0) # {}
    /\ query_get_fardel_by_id("a", HashId(0)).pending_unpack
    /\ ~Released("a", 0)
    /\ \E i \in 1 .. Len(pending_log["o"]) :
           pending_log["o"][i].unpacker = "b" /\ pending_log["o"][i].canceled
    /\ ~Released("b", 0)
    /\ Released("o", 0)
    /\ 0 \in hidden

\* the entries of the owner's queue that hold an unpack of a fardel by an
\* account, canceled or not
Requests(p, g) ==
    {i \in 1 .. Len(pending_log[get_fardel_owner(g)]) :
        /\ pending_log[get_fardel_owner(g)][i].fardel_id = g
        /\ pending_log[get_fardel_owner(g)][i].unpacker = p}

\* the latest unpack of a fardel by an account has been canceled
LastCanceled(p, g) ==
    /\ Requests(p, g) # {}
    /\ pending_log[get_fardel_owner(g)][
           CHOOSE i \in Requests(p, g) : \A j \in Requests(p, g) : j <= i].canceled

\* C20, with its outcomes: the contents of a fardel are given to an account
\* only if the account holds an unpack record of the fardel; and an account
\* whose unpack waits for approval, whose latest unpack has been canceled, or
\* whose unpack call has just been rejected gets no contents.
PayloadReleaseOutcomes ==
    /\ PayloadRelease
    /\ \A g \in Stored : \A p \in Accounts :
           (AwaitingOf(p, g) # {} \/ LastCanceled(p, g)) => ~Released(p, g)
    /\ (response.op = "unpack" /\ response.status # "Success")
       => ~response.contents

\* C21: the index from hash id to global id is one-to-one and permanent: no
\* two fardels carried share a hash id, and an entry of the index, once
\* written, never comes to point at another global id.
HashIndexPermanent ==
    [][/\ \A h \in DOMAIN hash_to_id :
              hash_to_id[h] # Absent => hash_to_id'[h] = hash_to_id[h]
       /\ \A g1 \in GlobalIds, g2 \in GlobalIds :
              (g1 < g2 /\ g2 < fardel_count')
              => get_fardel_by_global_id(g1)'.hash_id
                 # get_fardel_by_global_id(g2)'.hash_id]_vars

\* the page of an account's fardels that a listing should return: the
\* positions from page * page_size up to (page + 1) * page_size of the log read
\* backwards, none when page * page_size is past the log
PageOf(owner, page, page_size) ==
    IF page * page_size >= Len(fardel_log[owner]) THEN <<>>
    ELSE skip_take(fardel_log[owner], page * page_size, page_size)

\* the pages 0 .. last of a listing, one after the other
RECURSIVE PagesUpTo(_, _, _)
PagesUpTo(owner, last, page_size) ==
    IF last < 0 THEN <<>>
    ELSE PagesUpTo(owner, last - 1, page_size) \o PageOf(owner, last, page_size)

\* C22: a listing of an account's fardels returns the page of the log read
\* backwards, none when page * page_size is past the log, and changes nothing
\* stored; the pages of one page size, one after the other, are the log read
\* backwards.
PagedListing ==
    [][response'.op = "get_fardels"
       => /\ response'.status = "Success"
          /\ response'.fardels
             = PageOf(response'.sender, response'.page, response'.page_size)
          /\ PagesUpTo(response'.sender, Len(fardel_log[response'.sender]),
                       response'.page_size)
             = Reverse([i \in 1 .. Len(fardel_log[response'.sender]) |->
                           fardel_log[response'.sender][i].global_id])
          /\ UNCHANGED <<store, now>>]_vars

\* C26: global ids are given out in sequence from the fardel count: a carry
\* gives the fardel the count as its global id and adds one to the count, the
\* count is the number of fardels in the logs, the index from global id points
\* at the entry of the owner's log that holds the global id, and the fardel
\* found by a fardel's hash id is the fardel found by its global id, owned by
\* the account that carried it.
SequentialIds ==
    [][/\ (response'.op = "carry" /\ response'.status = "Success")
          => /\ response'.id = fardel_count
             /\ fardel_count' = fardel_count + 1
             /\ id_to_fardel'[response'.id].owner = response'.sender
       /\ fardel_count'
          = Len(fardel_log'["o"]) + Len(fardel_log'["a"]) + Len(fardel_log'["b"])
       /\ \A g \in GlobalIds :
              g < fardel_count'
              => /\ id_to_fardel'[g].owner \in Accounts
                 /\ fardel_log'[id_to_fardel'[g].owner][
                        id_to_fardel'[g].index + 1].global_id = g
                 /\ get_fardel_by_hash(get_fardel_by_global_id(g).hash_id)'
                    = get_fardel_by_global_id(g)'
       /\ \A g \in GlobalIds :
              g < fardel_count => get_fardel_owner(g)' = get_fardel_owner(g)]_vars

\* C24: the start of an account's queue never goes back and never passes the
\* end of the queue; an approval of number k >= 1 moves it forward by k, or
\* to the end of the queue if fewer than k entries are left, canceled entries
\* counted like the others; the canceled entries it passes get no unpack
\* record, no payment and no history entry; an approval of a number below 1
\* fails and changes nothing; no other call moves the start.
CursorAdvance ==
    [][/\ \A a \in Accounts :
              /\ pending_start'[a] >= pending_start[a]
              /\ pending_start'[a] <= Len(pending_log'[a])
       /\ response'.op # "approve" => pending_start' = pending_start
       /\ response'.op = "approve"
          => LET owner == response'.sender
                 k == IF response'.number = Absent THEN 10 ELSE response'.number
                 live == {i \in Examined(owner) : ~pending_log[owner][i].canceled}
             IN  IF k < 1
                 THEN response'.status = "Failure" /\ UNCHANGED <<store, now>>
                 ELSE /\ pending_start'[owner]
                         = pending_start[owner]
                           + Min(k, Len(pending_log[owner]) - pending_start[owner])
                      /\ Cardinality(SentTo(response', owner)) = Cardinality(live)
                      /\ Len(response'.txs) = 2 * Cardinality(live)
                      /\ \A p \in Accounts :
                             /\ Len(unpacked_log'[p]) - Len(unpacked_log[p])
                                = Cardinality({i \in live :
                                                  pending_log[owner][i].unpacker = p})
                             /\ \A g \in Stored :
                                    (/\ <<p, g>> \in unpacked_map'
                                     /\ <<p, g>> \notin unpacked_map)
                                    => \E i \in live :
                                           /\ pending_log[owner][i].unpacker = p
                                           /\ pending_log[owner][i].fardel_id = g
                                    ]_vars

\* an approval has gone past a canceled entry and a live one: one payment, and
\* no unpack record for the purchaser who canceled
CanceledEntrySkipped ==
    /\ response.op = "approve"
    /\ response.status = "Success"
    /\ pending_start["o"] = 2
    /\ pending_log["o"][1].canceled
    /\ ~pending_log["o"][2].canceled
    /\ Len(response.txs) = 2
    /\ <<pending_log["o"][1].unpacker, 0>> \notin unpacked_map
    /\ <<pending_log["o"][2].unpacker, 0>> \in unpacked_map

\* the entry at a place of the owner's queue waits for approval
EntryWaits(owner, i) ==
    /\ i <= Len(pending_log[owner])
    /\ i > pending_start[owner]
    /\ ~pending_log[owner][i].canceled

\* the entry at a place of the owner's queue has been canceled, or the start
\* of the queue is past it and its purchaser holds the unpack record
EntrySettled(owner, i) ==
    /\ i <= Len(pending_log[owner])
    /\ \/ pending_log[owner][i].canceled
       \/ /\ pending_start[owner] >= i
          /\ <<pending_log[owner][i].unpacker, pending_log[owner][i].fardel_id>>
             \in unpacked_map

\* C23: with an owner who keeps approving a number of at least 1, every entry
\* that waits in the queue is in the end settled unless its purchaser cancels
\* it: the start of the queue passes it and its purchaser holds the unpack
\* record, which is never taken away.
PendingSettled ==
    /\ \A i \in 1 .. MaxPending : EntryWaits("o", i) ~> EntrySettled("o", i)
    /\ [][unpacked_map \subseteq unpacked_map']_vars

\* the second entry of the queue has been approved after the first was
\* canceled
SecondEntrySettled ==
    /\ Len(pending_log["o"]) >= 2
    /\ pending_log["o"][1].canceled
    /\ ~pending_log["o"][2].canceled
    /\ pending_start["o"] >= 2
    /\ <<pending_log["o"][2].unpacker, 0>> \in unpacked_map

\* the sum of the commissions of a set of entries of an owner's queue
RECURSIVE CommissionOf(_, _)
CommissionOf(owner, entries) ==
    IF entries = {} THEN 0
    ELSE LET i == CHOOSE x \in entries : TRUE
         IN  Commission(pending_log[owner][i].coin)
             + CommissionOf(owner, entries \ {i})

\* C25: an approval that settles k entries sends k payments to the owner and
\* then at most one commission to the operator: one is sent exactly when the
\* sum of the k commissions is above zero, and its amount is that sum, not the
\* sum cut to 128 bits.
CommissionInstruction ==
    [][(response'.op = "approve" /\ response'.status = "Success")
       => LET owner == response'.sender
              live == {i \in Examined(owner) : ~pending_log[owner][i].canceled}
              k == Cardinality(live)
              total == CommissionOf(owner, live)
          IN  /\ Len(response'.messages) = k + (IF total > 0 THEN 1 ELSE 0)
              /\ \A i \in 1 .. k : response'.messages[i].to = owner
              /\ total > 0
                 => response'.messages[k + 1] = BankSend(constants.admin, total)]_vars

\* C27: the unpack count of a fardel goes down only in a successful cancel
\* for that fardel, by one, and up only in a successful unpack of that fardel,
\* by one; every other call leaves it as it was.
UnpackCountFrame ==
    [][\A g \in GlobalIds :
           /\ unpack_count'[g] < unpack_count[g]
              => /\ response'.op = "cancel"
                 /\ response'.status = "Success"
                 /\ response'.id = g
                 /\ unpack_count'[g] = unpack_count[g] - 1
           /\ unpack_count'[g] > unpack_count[g]
              => /\ response'.op = "unpack"
                 /\ response'.status = "Success"
                 /\ response'.id = g
                 /\ unpack_count'[g] = unpack_count[g] + 1]_vars

\* a cancel has just taken the only unit of a hidden fardel off its count
UnitGivenBack ==
    /\ response.op = "cancel"
    /\ response.status = "Success"
    /\ unpack_count[response.id] = 0
    /\ response.id \in hidden
    /\ \E i \in 1 .. Len(pending_log["o"]) : pending_log["o"][i].canceled

\* the sum of the amounts of a list of bank messages
RECURSIVE Total(_)
Total(messages) ==
    IF messages = <<>> THEN 0
    ELSE Head(messages).amount + Total(Tail(messages))

\* the sum of the coins of a set of entries of an owner's queue
RECURSIVE CoinOf(_, _)
CoinOf(owner, entries) ==
    IF entries = {} THEN 0
    ELSE LET i == CHOOSE x \in entries : TRUE
         IN  pending_log[owner][i].coin + CoinOf(owner, entries \ {i})

\* the coins held for the entries of an owner's queue that are neither
\* canceled nor settled
Held(owner) ==
    CoinOf(owner, {i \in 1 .. Len(pending_log[owner]) :
                      i > pending_start[owner] /\ ~pending_log[owner][i].canceled})

\* C28: the coins taken in by successful unpacks are, at every step, the coins
\* sent out (payments, commissions, refunds) plus the coins still held for
\* entries neither canceled nor settled: a successful unpack takes in what it
\* sends out or adds to the held coins, any other call sends out exactly what
\* it takes off the held coins; and a cancel refunds only an entry that has not
\* been settled.
EscrowSolvency ==
    [][LET out == Total(response'.messages)
           held == Held("o") + Held("a") + Held("b")
           held_after == Held("o")' + Held("a")' + Held("b")'
       IN  /\ (response'.op = "unpack" /\ response'.status = "Success")
              => response'.sent = out + held_after - held
           /\ ~(response'.op = "unpack" /\ response'.status = "Success")
              => out + held_after - held = 0
           /\ (response'.op = "cancel" /\ response'.status = "Success")
              => \E i \in 1 .. Len(pending_log[get_fardel_owner(response'.id)]) :
                     LET owner == get_fardel_owner(response'.id)
                     IN  /\ i > pending_start[owner]
                         /\ pending_log[owner][i].unpacker = response'.sender
                         /\ pending_log[owner][i].fardel_id = response'.id
                         /\ ~pending_log[owner][i].canceled
                         /\ pending_log'[owner][i].canceled]_vars

\* C29: the pending marker of an account for a fardel is set exactly when the
\* owner's queue holds, at the place the marker names, an entry of that
\* account for that fardel that is neither canceled nor behind the start of
\* the queue; so the is-pending query never answers true for an account that
\* holds the unpack record.
PendingMarkerAccurate ==
    \A p \in Accounts : \A g \in Stored :
        LET marker == get_pending_unpacked_status_by_fardel_id(pending_map, p, g)
            owner == get_fardel_owner(g)
            i == marker.pending_unpack_idx + 1
        IN  /\ marker.value
               <=> /\ i <= Len(pending_log[owner])
                   /\ pending_log[owner][i].unpacker = p
                   /\ pending_log[owner][i].fardel_id = g
                   /\ ~pending_log[owner][i].canceled
                   /\ i > pending_start[owner]
            /\ ~(/\ query_is_pending_unpack(p, get_fardel_by_global_id(g).hash_id).response
                 /\ get_unpacked_status_by_fardel_id(unpacked_map, p, g))

\* C30: an unpack call that ends with status Failure sends the coins that
\* came with it back to the sender.
FailureRefund ==
    [][(response'.op = "unpack" /\ response'.status = "Failure")
       => response'.messages = <<BankSend(response'.sender, response'.sent)>>]_vars

\* C31: the transaction fee stored is always one that valid_transaction_fee
\* accepts, nominator at most denominator: a SetConstants call with a fee
\* above 100% is rejected and leaves the constants as they were.
StoredFeeValid ==
    /\ valid_transaction_fee(<<constants.transaction_fee>>).ok
    /\ (response.op = "set_constants" /\ response.status = "Success")
       => constants.transaction_fee.nom <= constants.transaction_fee.denom

\* C39: the admin changes only in a ChangeAdmin call of the admin in office
\* that names the address already requested twice in a row; the first and
\* the second request only store the address and the count, a request for
\* another address starts the count again at 1, and a call of anyone else is
\* an error that changes nothing.
AdminHandover ==
    [][/\ constants'.admin # constants.admin
          => /\ response'.op = "change_admin"
             /\ response'.sender = constants.admin
             /\ new_admin = constants'.admin
             /\ new_admin_count = 2
       /\ (new_admin_count' = 2 /\ new_admin_count # 2)
          => /\ response'.op = "change_admin"
             /\ response'.sender = constants.admin
             /\ new_admin_count = 1
             /\ new_admin' = new_admin
             /\ UNCHANGED constants
       /\ (new_admin_count' = 1 /\ new_admin_count # 1)
          => /\ response'.op = "change_admin"
             /\ response'.sender = constants.admin
             /\ UNCHANGED constants
       /\ new_admin' # new_admin
          => /\ response'.op = "change_admin"
             /\ response'.sender = constants.admin
             /\ new_admin_count' = 1
             /\ UNCHANGED constants
       /\ (response'.op = "change_admin" /\ response'.sender # constants.admin)
          => /\ response'.status = "Err"
             /\ UNCHANGED <<constants, new_admin, new_admin_count>>
       /\ new_admin_count' \in 0 .. 2]_vars

AdminHandedOver ==
    /\ response.op = "change_admin"
    /\ response.msg = "Reset"
    /\ constants.admin = "a"
    /\ response.sender = Operator

\* the accounts whose rating stored for a fardel is the given one
Raters(fardel_id, rating) ==
    {p \in Accounts : rated[<<p, fardel_id>>] = <<rating>>}

\* C40: only an account that holds the unpack record of a fardel rates it; an
\* account has at most one rating of a fardel stored, a second RateFardel
\* without an UnrateFardel between is turned down and counts nothing; the
\* upvotes and downvotes of a fardel are the numbers of accounts whose stored
\* rating is up and down; and no UnrateFardel takes a count below zero.
RatingsCounted ==
    [][/\ \A g \in GlobalIds :
              /\ upvotes'[g] = Cardinality(Raters(g, TRUE)')
              /\ downvotes'[g] = Cardinality(Raters(g, FALSE)')
              /\ \A p \in Raters(g, TRUE)' \cup Raters(g, FALSE)' :
                     get_unpacked_status_by_fardel_id(unpacked_map', p, g)
       /\ response'.msg # "Panic"
       /\ (response'.op = "rate" /\ response'.status = "Success")
          => /\ get_unpacked_status_by_fardel_id(unpacked_map, response'.sender,
                                                 response'.id)
             /\ rated[<<response'.sender, response'.id>>] = Unrated
             /\ rated'[<<response'.sender, response'.id>>] # Unrated
       /\ (/\ response'.op \in {"rate", "comment"}
           /\ response'.id # Absent
           /\ rated[<<response'.sender, response'.id>>] # Unrated)
          => UNCHANGED <<rated, upvotes, downvotes>>
       /\ (response'.op = "unrate" /\ response'.status = "Success")
          => /\ rated[<<response'.sender, response'.id>>] # Unrated
             /\ rated'[<<response'.sender, response'.id>>] = Unrated
             /\ upvotes'[response'.id] + downvotes'[response'.id]
                = upvotes[response'.id] + downvotes[response'.id] - 1]_vars

SecondRatingTurnedDown ==
    /\ response.op = "rate"
    /\ response.msg = "RatedAlready"
    /\ upvotes[response.id] = 1
    /\ downvotes[response.id] = 1

\* C32 as stated: an UnpackFardel call of the owner for the owner's own
\* fardel is always turned down as already unpacked.
OwnerUnpackAlreadyUnpacked ==
    [][(/\ response'.op = "unpack"
        /\ response'.id # Absent
        /\ response'.sender = get_fardel_owner(response'.id))
       => response'.msg = "AlreadyUnpacked"]_vars

\* C32: carrying a fardel stores the owner's unpack record with the unpack
\* count at 0; an UnpackFardel call of the owner for the own fardel is turned
\* down, as unauthorized while the owner's account is banned or deactivated
\* or blocks itself and as already unpacked otherwise, pays nothing and
\* changes nothing stored; and no account stands in its own pending queue.
OwnerUnpackRefused ==
    [][/\ (response'.op = "carry" /\ response'.status = "Success")
          => /\ get_unpacked_status_by_fardel_id(unpacked_map', response'.sender,
                                                 response'.id)
             /\ unpack_count'[response'.id] = 0
             /\ id_to_fardel'[response'.id].owner = response'.sender
       /\ (/\ response'.op = "unpack"
           /\ response'.id # Absent
           /\ response'.sender = get_fardel_owner(response'.id))
          => /\ response'.msg
                = IF \/ is_banned(banned, response'.sender)
                     \/ is_deactivated(deactivated, response'.sender)
                     \/ is_blocked_by(blocked, response'.sender, response'.sender)
                  THEN "Unauthorized" ELSE "AlreadyUnpacked"
             /\ response'.status # "Success"
             /\ response'.messages = <<>>
             /\ UNCHANGED store
       /\ \A x \in Accounts : \A i \in 1 .. Len(pending_log'[x]) :
              pending_log'[x][i].unpacker # x]_vars

OwnerUnpackTurnedAway ==
    /\ response.op = "unpack"
    /\ response.sender = "o"
    /\ response.msg = "AlreadyUnpacked"
    /\ unpack_count[response.id] = 0
    /\ response.sent = get_fardel_by_global_id(response.id).cost

\* C33: a fardel becomes sealed only in a SealFardel call of its owner, in an
\* UnpackFardel call that reaches the expiry check past the seal time, or in
\* one that reaches the sold-out check of a fardel that needs no approval;
\* SealFardel, HideFardel and UnhideFardel of an account that is not the owner
\* and RemoveFardel and UnremoveFardel of an account that is not the admin are
\* turned down and change no flag.
SealedOnlyBy ==
    [][/\ \A g \in sealed' \ sealed :
              \/ /\ response'.op = "seal"
                 /\ response'.id = g
                 /\ response'.sender = get_fardel_owner(g)
              \/ /\ response'.op = "unpack"
                 /\ response'.id = g
                 /\ response'.msg = "Sealed"
                 /\ get_fardel_by_global_id(g).seal_time > 0
                 /\ get_fardel_by_global_id(g).seal_time < now
              \/ /\ response'.op = "unpack"
                 /\ response'.id = g
                 /\ response'.msg = "SoldOut"
                 /\ ~get_fardel_by_global_id(g).approval_req
       /\ (/\ response'.op \in {"seal", "hide", "unhide"}
           /\ response'.id # Absent
           /\ response'.sender # get_fardel_owner(response'.id))
          => /\ response'.status = "Failure"
             /\ UNCHANGED <<sealed, hidden, removed>>
       /\ (/\ response'.op \in {"remove", "unremove"}
           /\ response'.sender # constants.admin)
          => /\ response'.status = "Err"
             /\ UNCHANGED <<sealed, hidden, removed>>]_vars

SealedBySoldOut ==
    /\ response.op = "unpack"
    /\ response.msg = "SoldOut"
    /\ response.id \in sealed
    /\ response.id \in hidden

\* C34: SealFardel, HideFardel, UnhideFardel, RemoveFardel and UnremoveFardel
\* leave the pending queues, their starts, the pending markers, the unpack
\* counts and the unpack records as they are; and whatever the flags of a
\* fardel, the owner's approval stores the record of every entry it reads
\* that is not canceled, and the cancel of a marked pending unpack sends the
\* cost back and gives the unit back.
FlagsLeaveEscrow ==
    [][/\ response'.op \in {"seal", "hide", "unhide", "remove", "unremove"}
          => UNCHANGED <<pending_log, pending_start, pending_map, unpack_count,
                         unpacked_log, unpacked_map>>
       /\ (response'.op = "approve" /\ response'.msg # "InvalidNumber")
          => /\ response'.status = "Success"
             /\ UNCHANGED <<sealed, hidden, removed>>
             /\ pending_start'[response'.sender]
                = Min(Len(pending_log[response'.sender]),
                      pending_start[response'.sender]
                      + (IF response'.number = Absent THEN 10
                         ELSE response'.number))
             /\ \A i \in pending_start[response'.sender] + 1
                         .. pending_start'[response'.sender] :
                    LET entry == pending_log[response'.sender][i]
                    IN  ~entry.canceled
                        => /\ get_unpacked_status_by_fardel_id(
                                  unpacked_map', entry.unpacker, entry.fardel_id)
                           /\ \E m \in 1 .. Len(response'.messages) :
                                  response'.messages[m].to = response'.sender
       /\ (/\ response'.op = "cancel"
           /\ response'.id # Absent
           /\ get_pending_unpacked_status_by_fardel_id(
                  pending_map, response'.sender, response'.id).value)
          => /\ response'.status = "Success"
             /\ response'.messages
                = <<BankSend(response'.sender,
                             get_fardel_by_global_id(response'.id).cost)>>
             /\ unpack_count'[response'.id] = unpack_count[response'.id] - 1
             /\ UNCHANGED <<sealed, hidden, removed>>]_vars

CanceledWhileFlagged ==
    /\ response.op = "cancel"
    /\ response.status = "Success"
    /\ response.id \in sealed
    /\ response.id \in hidden
    /\ response.id \in removed
    /\ ~get_unpacked_status_by_fardel_id(unpacked_map, response.sender, response.id)

\* C35: every entry of an account's pending queue is for a fardel of that
\* account; an approval reads and moves on the sender's queue only, stores
\* records for the sender's fardels only and pays the sender (and the
\* commission to the admin); a cancel cancels an entry of the sender only,
\* and an unpack adds an entry of the sender to the queue of the fardel's
\* owner only.
QueueOwnership ==
    [][/\ \A x \in Accounts : \A i \in 1 .. Len(pending_log'[x]) :
              id_to_fardel'[pending_log'[x][i].fardel_id].owner = x
       /\ response'.op = "approve"
          => /\ UNCHANGED <<pending_log, pending_map>>
             /\ \A y \in Accounts \ {response'.sender} :
                    pending_start'[y] = pending_start[y]
             /\ \A k \in unpacked_map' \ unpacked_map :
                    /\ get_fardel_owner(k[2]) = response'.sender
                    /\ \E i \in pending_start[response'.sender] + 1
                                .. pending_start'[response'.sender] :
                           /\ pending_log[response'.sender][i].unpacker = k[1]
                           /\ pending_log[response'.sender][i].fardel_id = k[2]
             /\ \A m \in 1 .. Len(response'.messages) :
                    \/ response'.messages[m].to = response'.sender
                    \/ /\ m = Len(response'.messages)
                       /\ response'.messages[m].to = constants.admin
       /\ response'.op = "cancel"
          => /\ UNCHANGED <<pending_start, unpacked_map>>
             /\ \A x \in Accounts :
                    /\ Len(pending_log'[x]) = Len(pending_log[x])
                    /\ \A i \in 1 .. Len(pending_log[x]) :
                           pending_log'[x][i] # pending_log[x][i]
                           => /\ pending_log[x][i].unpacker = response'.sender
                              /\ pending_log[x][i].fardel_id = response'.id
             /\ \A k \in DOMAIN pending_map :
                    pending_map'[k] # pending_map[k] => k[1] = response'.sender
             /\ \A m \in 1 .. Len(response'.messages) :
                    response'.messages[m].to = response'.sender
       /\ response'.op = "unpack"
          => /\ UNCHANGED pending_start
             /\ \A x \in Accounts :
                    \/ pending_log'[x] = pending_log[x]
                    \/ /\ x = get_fardel_owner(response'.id)
                       /\ Len(pending_log'[x]) = Len(pending_log[x]) + 1
                       /\ SubSeq(pending_log'[x], 1, Len(pending_log[x]))
                          = pending_log[x]
                       /\ pending_log'[x][Len(pending_log'[x])].unpacker
                          = response'.sender]_vars

OwnQueueApproved ==
    /\ response.op = "approve"
    /\ response.sender = "o"
    /\ response.status = "Success"
    /\ Len(response.messages) > 0
    /\ pending_start["a"] < Len(pending_log["a"])
    /\ ~pending_log["a"][Len(pending_log["a"])].canceled

\* the purchasers of the entries of a piece of a queue that are not canceled,
\* in the order of the queue
RECURSIVE Buyers(_)
Buyers(entries) ==
    IF entries = <<>> THEN <<>>
    ELSE (IF Head(entries).canceled THEN <<>> ELSE <<Head(entries).unpacker>>)
         \o Buyers(Tail(entries))

\* C36: an approval takes the entries of the sender's queue in the order of
\* the requests: it reads the entries from the start on without a gap, the
\* sales it records are those of the entries read that are not canceled, in
\* the order of the queue, and so every entry before the start is canceled or
\* has its record while no entry after the start has been settled.
SettledInOrder ==
    [][/\ (response'.op = "approve" /\ response'.status = "Success")
          => LET owner == response'.sender
                 read == SubSeq(pending_log[owner], pending_start[owner] + 1,
                                pending_start'[owner])
             IN  /\ pending_start'[owner] >= pending_start[owner]
                 /\ pending_start'[owner] <= Len(pending_log[owner])
                 /\ Len(response'.txs) = 2 * Len(Buyers(read))
                 /\ \A k \in 1 .. Len(Buyers(read)) :
                        /\ response'.txs[2 * k - 1].buyer = Buyers(read)[k]
                        /\ response'.txs[2 * k].buyer = Buyers(read)[k]
                 /\ \A k \in unpacked_map' \ unpacked_map :
                        \E i \in 1 .. Len(read) :
                            /\ ~read[i].canceled
                            /\ k = <<read[i].unpacker, read[i].fardel_id>>
       /\ \A owner \in Accounts : \A i \in 1 .. Len(pending_log'[owner]) :
              IF i <= pending_start'[owner]
              THEN \/ pending_log'[owner][i].canceled
                   \/ <<pending_log'[owner][i].unpacker,
                        pending_log'[owner][i].fardel_id>> \in unpacked_map'
              ELSE \/ pending_log'[owner][i].canceled
                   \/ <<pending_log'[owner][i].unpacker,
                        pending_log'[owner][i].fardel_id>> \notin unpacked_map']_vars

TwoSettledInOrder ==
    /\ response.op = "approve"
    /\ response.status = "Success"
    /\ Len(response.txs) = 4
    /\ response.txs[1].buyer # response.txs[3].buyer
    /\ pending_start[response.sender] = 3
    /\ pending_log[response.sender][1].canceled

\* C37: the total_count of the query for an account's unpacked fardels, the
\* length of the account's list of unpacks less the number of its own
\* fardels, is never negative and is the number of fardels of other accounts
\* that the account has unpacked, each counted once.
UnpackedTotalCount ==
    \A account \in Accounts :
        /\ total_count(account) >= 0
        /\ total_count(account)
           = Cardinality({g \in Stored :
                             /\ get_fardel_owner(g) # account
                             /\ get_unpacked_status_by_fardel_id(unpacked_map,
                                                                 account, g)})
        /\ total_count(account) = Cardinality(query_get_unpacked(account))

BothCounted ==
    /\ total_count("a") = 1
    /\ total_count("b") = 2
    /\ Len(unpacked_log["a"]) = 2
    /\ \E i \in 1 .. Len(pending_log["o"]) :
           pending_log["o"][i].unpacker = "b" /\ pending_log["o"][i].canceled

\* the five calls that set or clear a flag of a fardel
FlagOps == {"seal", "hide", "unhide", "remove", "unremove"}

\* C38: SealFardel, HideFardel, UnhideFardel, RemoveFardel and UnremoveFardel
\* done twice in a row leave the store as done once; UnhideFardel after
\* HideFardel leaves the fardel not hidden and UnremoveFardel after
\* RemoveFardel leaves it not removed; no call takes a seal away; and each
\* writes only its own flag, of the fardel named.
FlagsIdempotent ==
    [][/\ (/\ response'.op \in FlagOps
           /\ response'.status = "Success"
           /\ response.op = response'.op
           /\ response.status = "Success"
           /\ response.id = response'.id)
          => UNCHANGED store
       /\ (/\ response'.op = "unhide" /\ response'.status = "Success"
           /\ response.op = "hide" /\ response.status = "Success"
           /\ response.id = response'.id)
          => /\ response'.id \notin hidden'
             /\ response'.id \in hidden
       /\ (/\ response'.op = "unremove" /\ response'.status = "Success"
           /\ response.op = "remove" /\ response.status = "Success"
           /\ response.id = response'.id)
          => /\ response'.id \notin removed'
             /\ response'.id \in removed
       /\ sealed \subseteq sealed'
       /\ (response'.op \in FlagOps /\ response'.status = "Success")
          => /\ sealed' = IF response'.op = "seal"
                          THEN sealed \cup {response'.id} ELSE sealed
             /\ hidden' = IF response'.op = "hide"
                          THEN hidden \cup {response'.id}
                          ELSE IF response'.op = "unhide"
                          THEN hidden \ {response'.id} ELSE hidden
             /\ removed' = IF response'.op = "remove"
                           THEN removed \cup {response'.id}
                           ELSE IF response'.op = "unremove"
                           THEN removed \ {response'.id} ELSE removed
             /\ UNCHANGED <<constants, fardel_count, fardel_log, id_to_fardel,
                            hash_to_id, unpack_count, unpacked_log, unpacked_map,
                            pending_log, pending_start, pending_map, blocked,
                            banned, deactivated>>]_vars

OneFardelSealed ==
    /\ response.op = "seal"
    /\ response.status = "Success"
    /\ response.id = 1
    /\ sealed = {1}
    /\ hidden = {0}
    /\ removed = {0, 1}

====
